---- MODULE Spec2Model ----
(***************************************************************************)
(* A model of the semantic analyzer of the zig compiler (src/analyze.cpp): *)
(* the type interner, the top-level declaration dependency resolver, the   *)
(* struct/enum body resolver, peer type unification and the choice of the  *)
(* error tag type.                                                         *)
(*                                                                         *)
(* A type handle (a TypeTableEntry pointer) is an index into g.types; 0 is *)
(* the null pointer.  The CodeGen object is the record g.                  *)
(***************************************************************************)
EXTENDS Integers, Sequences, FiniteSets, TLC

VARIABLES
    g,      \* CodeGen: types, errors, imports, unresolved_top_level_decls, counters
    ast,    \* the top-level declarations with the fields the analyzer fills in
    pc,     \* position of the session: the phase of semantic_analyze and its loop index
    hist    \* observations of the run the properties are stated on

vars == <<g, ast, pc, hist>>

\* ------------------------------------------------------------------ bounds

\* how many type table entries a session of interning calls may create
MaxNewTypes == 3
\* array lengths drawn for get_array_type
MaxArrayLen == 1

\* ------------------------------------------------------------------ types

NullType == 0

Bool2Idx(is_const) == IF is_const THEN 2 ELSE 1

\* new_type_table_entry: a zeroed entry of the given id
new_type_table_entry(id) ==
    [ id |-> id, name |-> "", size_in_bits |-> 0, align_in_bits |-> 0,
      child_type |-> NullType, is_const |-> FALSE, len |-> 0, is_signed |-> FALSE,
      \* data.structure / data.enumeration
      decl_node |-> 0, has_fields |-> FALSE, fields |-> <<>>, is_invalid |-> FALSE,
      is_unknown_size_array |-> FALSE, embedded_in_current |-> FALSE,
      reported_infinite_err |-> FALSE, complete |-> FALSE, gen_field_count |-> 0,
      \* data.fn
      param_types |-> <<>>, src_return_type |-> NullType, is_var_args |-> FALSE,
      is_naked |-> FALSE, internal_linkage |-> FALSE,
      \* the tables that keep one entry per derived type
      pointer_parent |-> <<NullType, NullType>>,
      unknown_size_array_parent |-> <<NullType, NullType>>,
      arrays_by_size |-> <<>>,
      maybe_parent |-> NullType, error_parent |-> NullType ]

IntEntry(nm, signed, bits) ==
    [new_type_table_entry("Int") EXCEPT !.name = nm, !.is_signed = signed,
                                        !.size_in_bits = bits, !.align_in_bits = bits]

\* define_builtin_types: the primitive entries the model uses
BuiltinTypes ==
    << [new_type_table_entry("Invalid") EXCEPT !.name = "(invalid)"],
       [new_type_table_entry("NumLitInt") EXCEPT !.name = "(integer literal)"],
       IntEntry("i32", TRUE, 32),
       IntEntry("u32", FALSE, 32),
       IntEntry("i64", TRUE, 64),
       IntEntry("isize", TRUE, 64),
       [new_type_table_entry("Bool") EXCEPT !.name = "bool", !.size_in_bits = 8,
                                            !.align_in_bits = 8],
       [new_type_table_entry("Void") EXCEPT !.name = "void"],
       [new_type_table_entry("Unreachable") EXCEPT !.name = "unreachable"],
       [new_type_table_entry("MetaType") EXCEPT !.name = "type"],
       [new_type_table_entry("PureError") EXCEPT !.name = "error"] >>

Builtin(nm) == CHOOSE h \in 1..Len(BuiltinTypes) : BuiltinTypes[h].name = nm

entry_invalid == Builtin("(invalid)")
entry_void == Builtin("void")
entry_isize == Builtin("isize")
entry_i32 == Builtin("i32")
entry_pure_error == Builtin("error")

\* primitive_type_table: the names a symbol resolves to without a declaration
primitive_type_table(nm) ==
    IF \E h \in 1..Len(BuiltinTypes) :
           /\ BuiltinTypes[h].name = nm
           /\ BuiltinTypes[h].id \notin {"Invalid", "NumLitInt"}
    THEN Builtin(nm) ELSE NullType

\* a threaded result: the type table after the call and the handle returned
Ret(T, h) == [types |-> T, h |-> h]

\* a local variable of the code: the value v of a call, named in what follows it
With(v, F(_)) == F(v)

\* get_pointer_to_type without the pointer_parent lookup: a faulty
\* variant the interning property must tell from the code
get_pointer_to_type_uncached(T, child_type, is_const, ptr_bytes) ==
    LET h == Len(T) + 1
        child == T[child_type]
        zero_bits == IF child.size_in_bits = 0
                     THEN (IF child.id \in {"Struct", "Enum"} THEN child.complete ELSE TRUE)
                     ELSE FALSE
        entry == [new_type_table_entry("Pointer") EXCEPT
                    !.name = "&" \o (IF is_const THEN "const " ELSE "") \o child.name,
                    !.size_in_bits = IF zero_bits THEN 0 ELSE ptr_bytes * 8,
                    !.align_in_bits = IF zero_bits THEN 0 ELSE ptr_bytes * 8,
                    !.child_type = child_type,
                    !.is_const = is_const]
    IN Ret(Append([T EXCEPT ![child_type].pointer_parent[Bool2Idx(is_const)] = h], entry), h)

get_pointer_to_type(T, child_type, is_const, ptr_bytes) ==
    LET parent == T[child_type].pointer_parent[Bool2Idx(is_const)]
    IN IF parent # NullType
       THEN Ret(T, parent)
       ELSE get_pointer_to_type_uncached(T, child_type, is_const, ptr_bytes)

get_maybe_type(T, child_type) ==
    IF T[child_type].maybe_parent # NullType
    THEN Ret(T, T[child_type].maybe_parent)
    ELSE LET h == Len(T) + 1
             child == T[child_type]
             entry == [new_type_table_entry("Maybe") EXCEPT
                         !.name = "?" \o child.name,
                         !.size_in_bits = child.size_in_bits + 8,
                         !.align_in_bits = child.align_in_bits,
                         !.child_type = child_type]
         IN Ret(Append([T EXCEPT ![child_type].maybe_parent = h], entry), h)

get_error_type(T, child_type, err_tag_bits) ==
    IF T[child_type].error_parent # NullType
    THEN Ret(T, T[child_type].error_parent)
    ELSE LET h == Len(T) + 1
             child == T[child_type]
             entry == [new_type_table_entry("ErrorUnion") EXCEPT
                         !.name = "%" \o child.name,
                         !.size_in_bits = IF child.size_in_bits = 0 THEN err_tag_bits
                                          ELSE err_tag_bits + child.size_in_bits,
                         !.align_in_bits = err_tag_bits,
                         !.child_type = child_type]
         IN Ret(Append([T EXCEPT ![child_type].error_parent = h], entry), h)

\* arrays_by_size is a list of <<array_size, entry>> pairs
ArraysBySizeGet(child, array_size) ==
    LET hits == {i \in 1..Len(child.arrays_by_size) : child.arrays_by_size[i][1] = array_size}
    IN IF hits = {} THEN NullType ELSE child.arrays_by_size[CHOOSE i \in hits : TRUE][2]

get_array_type(T, child_type, array_size) ==
    LET existing_entry == ArraysBySizeGet(T[child_type], array_size)
    IN IF existing_entry # NullType
       THEN Ret(T, existing_entry)
       ELSE LET h == Len(T) + 1
                child == T[child_type]
                entry == [new_type_table_entry("Array") EXCEPT
                            !.name = "[" \o ToString(array_size) \o "]" \o child.name,
                            !.size_in_bits = child.size_in_bits * array_size,
                            !.align_in_bits = child.align_in_bits,
                            !.child_type = child_type,
                            !.len = array_size]
            IN Ret(Append([T EXCEPT ![child_type].arrays_by_size =
                                        Append(@, <<array_size, h>>)], entry), h)

\* unknown_size_array_type_common_init: the slice is a struct { ptr, len }
unknown_size_array_type_common_init(T, child_type, is_const, entry, ptr_bytes) ==
    LET p == get_pointer_to_type(T, child_type, is_const, ptr_bytes)
    IN [types |-> p.types,
        entry |-> [entry EXCEPT
                     !.size_in_bits = ptr_bytes * 2 * 8,
                     !.align_in_bits = ptr_bytes * 8,
                     !.is_unknown_size_array = TRUE,
                     !.has_fields = TRUE,
                     !.gen_field_count = 2,
                     !.fields = << [name |-> "ptr", type_entry |-> p.h],
                                   [name |-> "len", type_entry |-> entry_isize] >>]]

\* the non-const branch of get_unknown_size_array_type
get_unknown_size_array_type_var(T, child_type, ptr_bytes) ==
    LET parent == T[child_type].unknown_size_array_parent[1]
    IN IF parent # NullType
       THEN Ret(T, parent)
       ELSE LET entry0 == [new_type_table_entry("Struct") EXCEPT
                             !.name = "[]" \o T[child_type].name]
                \* the entry is allocated before the pointer type is looked up
                h == Len(T) + 1
                T1 == Append(T, entry0)
                ci == unknown_size_array_type_common_init(T1, child_type, FALSE, entry0, ptr_bytes)
            IN Ret([ci.types EXCEPT ![h] = ci.entry,
                                    ![child_type].unknown_size_array_parent[1] = h], h)

get_unknown_size_array_type(T, child_type, is_const, ptr_bytes) ==
    LET parent == T[child_type].unknown_size_array_parent[Bool2Idx(is_const)]
    IN IF parent # NullType
       THEN Ret(T, parent)
       ELSE IF is_const
       THEN LET var_peer == get_unknown_size_array_type_var(T, child_type, ptr_bytes)
                entry0 == [new_type_table_entry("Struct") EXCEPT
                             !.name = "[]const " \o T[child_type].name]
                h == Len(var_peer.types) + 1
                T1 == Append(var_peer.types, entry0)
                ci == unknown_size_array_type_common_init(T1, child_type, TRUE, entry0, ptr_bytes)
            IN Ret([ci.types EXCEPT ![h] = ci.entry,
                                    ![child_type].unknown_size_array_parent[2] = h], h)
       ELSE get_unknown_size_array_type_var(T, child_type, ptr_bytes)

\* ------------------------------------------------------------------ hash maps

\* a HashMap is a list of <<key, value>> pairs with at most one pair per key
MapHas(m, k) == \E i \in 1..Len(m) : m[i][1] = k
MapGet(m, k) == m[CHOOSE i \in 1..Len(m) : m[i][1] = k][2]
MapKeys(m) == {m[i][1] : i \in 1..Len(m)}
MapPut(m, k, v) ==
    IF MapHas(m, k)
    THEN [i \in 1..Len(m) |-> IF m[i][1] = k THEN <<k, v>> ELSE m[i]]
    ELSE Append(m, <<k, v>>)
MapRemove(m, k) == SelectSeq(m, LAMBDA e : e[1] # k)

\* ------------------------------------------------------------------ function types

\* handle_is_ptr
handle_is_ptr(T, type_entry) ==
    CASE T[type_entry].id \in {"Array", "Struct", "Maybe"} -> TRUE
      [] T[type_entry].id = "ErrorUnion" -> T[T[type_entry].child_type].size_in_bits > 0
      [] T[type_entry].id = "Enum" -> T[type_entry].gen_field_count # 0
      [] OTHER -> FALSE

RECURSIVE ParamNames(_, _, _)
ParamNames(T, param_types, i) ==
    IF i > Len(param_types) THEN ""
    ELSE (IF i = 1 THEN "" ELSE ", ") \o T[param_types[i]].name
         \o ParamNames(T, param_types, i + 1)

\* the name resolve_function_proto builds for a function type
FnTypeName(T, internal_linkage, is_inline, is_naked, param_types, return_type, is_var_args) ==
    (IF internal_linkage THEN "" ELSE "export ")
    \o (IF is_inline THEN "inline " ELSE "")
    \o (IF is_naked THEN "naked " ELSE "")
    \o "fn(" \o ParamNames(T, param_types, 1)
    \o (IF is_var_args THEN (IF Len(param_types) = 0 THEN "" ELSE ", ") \o "..." ELSE "")
    \o ")"
    \o (IF T[return_type].id # "Void" THEN " " \o T[return_type].name ELSE "")

\* the pointer types resolve_function_proto creates for by-reference parameters
RECURSIVE GenParamTypes(_, _, _, _)
GenParamTypes(T, param_types, i, ptr_bytes) ==
    IF i > Len(param_types) THEN T
    ELSE IF T[param_types[i]].size_in_bits > 0 /\ handle_is_ptr(T, param_types[i])
    THEN GenParamTypes(get_pointer_to_type(T, param_types[i], TRUE, ptr_bytes).types,
                       param_types, i + 1, ptr_bytes)
    ELSE GenParamTypes(T, param_types, i + 1, ptr_bytes)

\* resolve_function_proto from the resolved parameter and return types on: the
\* function type is looked up by name in the fn_type_table of the import.
\* cg is [types, imports]; the result adds the handle h (NullType when skipped).
resolve_function_proto_type(cg, import, internal_linkage, is_inline, is_naked, param_types, return_type, is_var_args, ptr_bytes) ==
    LET T0 == cg.types
        skip == \/ T0[return_type].id = "Invalid"
                \/ \E i \in 1..Len(param_types) :
                       T0[param_types[i]].id \in {"Unreachable", "Invalid"}
        name == FnTypeName(T0, internal_linkage, is_inline, is_naked,
                           param_types, return_type, is_var_args)
        fn_type == [new_type_table_entry("Fn") EXCEPT
                      !.name = name,
                      !.size_in_bits = ptr_bytes * 8,
                      !.align_in_bits = ptr_bytes * 8,
                      !.param_types = param_types,
                      !.src_return_type = return_type,
                      !.is_var_args = is_var_args,
                      !.is_naked = is_naked,
                      !.internal_linkage = internal_linkage]
        first_arg_return == ~skip /\ handle_is_ptr(T0, return_type)
        T1 == Append(T0, fn_type)
        h == Len(T1)
        T2 == IF first_arg_return
              THEN get_pointer_to_type(T1, return_type, FALSE, ptr_bytes).types
              ELSE T1
        T3 == IF skip THEN T2 ELSE GenParamTypes(T2, param_types, 1, ptr_bytes)
        table == cg.imports[import].fn_type_table
    IN IF skip
       THEN [types |-> T3, imports |-> cg.imports, h |-> h]
       ELSE IF MapHas(table, name)
       \* the entry just built is left unused; the table's entry is the type
       THEN [types |-> T3, imports |-> cg.imports, h |-> MapGet(table, name)]
       ELSE [types |-> T3,
             imports |-> [cg.imports EXCEPT ![import].fn_type_table = MapPut(@, name, h)],
             h |-> h]

\* ------------------------------------------------------------------ the session

Imports == {"root", "other"}

\* ImportTableEntry: the tables of its block_context and its function tables
NewImport ==
    [ type_table |-> <<>>, variable_table |-> <<>>, error_table |-> <<>>,
      fn_table |-> <<>>, fn_type_table |-> <<>> ]

\* codegen_create and init: the session before semantic_analyze
NewCodeGen(ptr_bytes) ==
    [ types |-> BuiltinTypes,
      errors |-> <<>>,
      imports |-> [i \in Imports |-> NewImport],
      unresolved_top_level_decls |-> <<>>,
      next_error_index |-> 1,
      error_value_count |-> 1,
      err_tag_bits |-> 8,
      pointer_size_bytes |-> ptr_bytes ]

NoHist == [results |-> {}, last |-> <<>>, log |-> <<>>]

\* ------------------------------------------------------------------ interning calls

\* the types an interning call is made on: void, i32 and every derived type
InternChildren == {entry_void, entry_i32} \cup (Len(BuiltinTypes) + 1 .. Len(g.types))

WithinTypeBound(T) == Len(T) <= Len(BuiltinTypes) + MaxNewTypes

\* records the call: its key, the handle returned, whether an entry was created
Observe(key, r) ==
    hist' = [hist EXCEPT !.results = @ \cup {<<key, r.h>>},
                         !.last = [key |-> key, h |-> r.h,
                                   created |-> Len(r.types) > Len(g.types)]]

InternStep(key, r) ==
    /\ pc.at = "intern"
    /\ WithinTypeBound(r.types)
    /\ g' = [g EXCEPT !.types = r.types]
    /\ Observe(key, r)
    /\ UNCHANGED <<ast, pc>>

GetPointerToType ==
    \E child \in InternChildren, is_const \in BOOLEAN :
        /\ g.types[child].id # "Invalid"
        /\ InternStep(<<"pointer", child, is_const>>,
                      get_pointer_to_type(g.types, child, is_const, g.pointer_size_bytes))

GetMaybeType ==
    \E child \in InternChildren :
        InternStep(<<"maybe", child, FALSE>>, get_maybe_type(g.types, child))

GetErrorType ==
    \E child \in InternChildren :
        InternStep(<<"error", child, FALSE>>,
                   get_error_type(g.types, child, g.err_tag_bits))

GetArrayType ==
    \E child \in InternChildren, array_size \in 0..MaxArrayLen :
        InternStep(<<"array", child, array_size>>,
                   get_array_type(g.types, child, array_size))

GetUnknownSizeArrayType ==
    \E child \in InternChildren, is_const \in BOOLEAN :
        /\ g.types[child].id # "Invalid"
        /\ InternStep(<<"slice", child, is_const>>,
                      get_unknown_size_array_type(g.types, child, is_const,
                                                  g.pointer_size_bytes))

\* a function prototype of an import: no or one i32 parameter, void result
ResolveFunctionProto ==
    \E import \in Imports, internal_linkage \in BOOLEAN,
       param_types \in {<<>>, <<entry_i32>>}, return_type \in {entry_void} :
        LET r == resolve_function_proto_type(g, import, internal_linkage, FALSE, FALSE,
                                             param_types, return_type, FALSE,
                                             g.pointer_size_bytes)
        IN /\ pc.at = "intern"
           /\ WithinTypeBound(r.types)
           /\ g' = [g EXCEPT !.types = r.types, !.imports = r.imports]
           /\ Observe(<<"fn", <<internal_linkage, param_types, return_type>>, import>>, r)
           /\ UNCHANGED <<ast, pc>>

InitIntern ==
    /\ \E ptr_bytes \in {8} : g = NewCodeGen(ptr_bytes)
    /\ ast = <<>>
    /\ pc = [at |-> "intern", index |-> 0]
    /\ hist = NoHist

NextIntern ==
    \/ GetPointerToType
    \/ GetMaybeType
    \/ GetErrorType
    \/ GetArrayType
    \/ GetUnknownSizeArrayType

SpecIntern == InitIntern /\ [][NextIntern]_vars

NextTypes ==
    \/ GetPointerToType
    \/ GetMaybeType
    \/ GetErrorType
    \/ GetArrayType
    \/ GetUnknownSizeArrayType
    \/ ResolveFunctionProto

SpecTypes == InitIntern /\ [][NextTypes]_vars

\* C1: two interning calls with the same operation and the same parameters
\* returned the same handle, whatever was interned in between.
C1_SameParamsSameHandle ==
    \A c1, c2 \in hist.results :
        (c1[1] = c2[1] /\ c1[1][1] # "fn") => c1[2] = c2[2]

\* C1 witness: a call found the entry of an earlier call although other types
\* were created after that entry.
C1_Witness ==
    /\ hist.last # <<>>
    /\ hist.last.key[1] \in {"pointer", "slice", "maybe", "error", "array"}
    /\ ~hist.last.created
    /\ hist.last.h < Len(g.types)

\* structural equality of two types of the table: the same kind, the same
\* parameters, structurally equal component types
RECURSIVE StructurallyEqual(_, _, _)
StructurallyEqual(T, a, b) ==
    \/ a = b
    \/ /\ a # NullType /\ b # NullType
       /\ T[a].id = T[b].id
       /\ CASE T[a].id \in {"Pointer"} ->
                 /\ T[a].is_const = T[b].is_const
                 /\ StructurallyEqual(T, T[a].child_type, T[b].child_type)
            [] T[a].id \in {"Maybe", "ErrorUnion"} ->
                 StructurallyEqual(T, T[a].child_type, T[b].child_type)
            [] T[a].id = "Array" ->
                 /\ T[a].len = T[b].len
                 /\ StructurallyEqual(T, T[a].child_type, T[b].child_type)
            [] T[a].id = "Struct" ->
                 /\ T[a].is_unknown_size_array /\ T[b].is_unknown_size_array
                 /\ StructurallyEqual(T, T[a].fields[1].type_entry, T[b].fields[1].type_entry)
            [] T[a].id = "Fn" ->
                 /\ Len(T[a].param_types) = Len(T[b].param_types)
                 /\ \A i \in 1..Len(T[a].param_types) :
                        StructurallyEqual(T, T[a].param_types[i], T[b].param_types[i])
                 /\ StructurallyEqual(T, T[a].src_return_type, T[b].src_return_type)
                 /\ T[a].is_var_args = T[b].is_var_args
                 /\ T[a].is_naked = T[b].is_naked
                 /\ T[a].internal_linkage = T[b].internal_linkage
            [] OTHER -> FALSE

\* C5: any two handles the resolver returned for structurally equal types
\* (pointer, array, slice, optional, error union or function type, in the same
\* import or in different imports) are the same handle.
C5_StructurallyEqualSameHandle ==
    \A c1, c2 \in hist.results :
        StructurallyEqual(g.types, c1[2], c2[2]) => c1[2] = c2[2]

\* ------------------------------------------------------------------ programs

\* how many top-level declarations a program has
MaxDecls == 3
\* how many fields the first struct or enum of a program may have
MaxFields == 2

entry_metatype == Builtin("type")
entry_unreachable == Builtin("unreachable")

DeclNames == <<"A", "B", "C", "D", "E">>
FieldNames == <<"x", "y", "z", "w">>

\* a type expression: a symbol, or `&T`, `[2]T`, `?T` or `%T` on a symbol T
Symbol(name) == [op |-> "sym", symbol |-> name, size |-> 0]
PlainExprs(n) == {Symbol("i32")} \cup {Symbol(DeclNames[i]) : i \in 1..n}
TypeExprs(n) ==
    PlainExprs(n) \cup
    {[op |-> op, symbol |-> DeclNames[i], size |-> IF op = "array" THEN 2 ELSE 0] :
        op \in {"ptr", "array", "maybe", "error"}, i \in 1..n}

\* a top-level declaration node: a struct or enum with its fields, or
\* `const name = expr;`.  deps, in_current_deps (TopLevelDecl), type_entry
\* (struct_decl.type_entry) and the initializer's resolved Expr are filled in
\* by the analyzer.
DeclNode(kind, name, field_types) ==
    [ kind |-> kind, name |-> name,
      fields |-> [i \in 1..Len(field_types) |->
                    [name |-> FieldNames[i], type |-> field_types[i]]],
      deps |-> <<>>, in_current_deps |-> FALSE,
      type_entry |-> NullType,
      expr |-> [type_entry |-> NullType, const_val |-> [ok |-> FALSE, x_type |-> NullType]] ]

NodeKinds == {"struct", "enum", "var"}

\* the declarations with one field (or initializer) drawn from exprs
Decls1(i, exprs) == {DeclNode(kind, DeclNames[i], <<e>>) : kind \in NodeKinds, e \in exprs}

\* the structs and enums with up to nf fields of plain symbols
RECURSIVE FieldTypeLists(_, _)
FieldTypeLists(nf, exprs) ==
    IF nf = 0 THEN {<<>>}
    ELSE LET shorter == FieldTypeLists(nf - 1, exprs)
         IN shorter \cup {Append(l, e) : l \in {k \in shorter : Len(k) = nf - 1}, e \in exprs}

DeclsN(i, nf, exprs) ==
    {DeclNode(kind, DeclNames[i], l) :
        kind \in {"struct", "enum"}, l \in FieldTypeLists(nf, exprs) \ {<<>>}}

RECURSIVE ProgramsOf(_, _, _)
ProgramsOf(n, i, exprs) ==
    IF i > n THEN {<<>>}
    ELSE {<<d>> \o rest : d \in Decls1(i, exprs), rest \in ProgramsOf(n, i + 1, exprs)}

\* the programs analyzed: every program of MaxDecls - 1 one-field declarations
\* over all type expressions, and every program of MaxDecls declarations over
\* plain symbols whose first declaration may have up to MaxFields fields
Programs ==
    ProgramsOf(MaxDecls - 1, 1, TypeExprs(MaxDecls - 1))
    \cup {<<d>> \o rest :
            d \in Decls1(1, PlainExprs(MaxDecls)) \cup DeclsN(1, MaxFields, PlainExprs(MaxDecls)),
            rest \in ProgramsOf(MaxDecls, 2, PlainExprs(MaxDecls))}

\* ------------------------------------------------------------------ expressions

\* The analysis operators thread s = [g, ast, log]: the CodeGen, the nodes and
\* the events observed.  A node is named <<declaration index, field index>>
\* (field index 0: the declaration itself).

add_node_error(s, node, msg) ==
    [s EXCEPT !.g.errors = Append(@, [node |-> node, msg |-> msg])]

\* the Expr of an analyzed expression: its type and its constant value
ExprRet(s, type_entry, ok, x_type) ==
    [s |-> s, type_entry |-> type_entry, const_val |-> [ok |-> ok, x_type |-> x_type]]

resolve_expr_const_val_as_type(s, type) == ExprRet(s, entry_metatype, TRUE, type)

\* find_variable / find_container at the top-level block context of the import
\* (no variable: the entry whose type is null)
find_variable(s, import, name) ==
    IF MapHas(s.g.imports[import].variable_table, name)
    THEN MapGet(s.g.imports[import].variable_table, name)
    ELSE [type |-> NullType, is_const |-> FALSE, decl_node |-> 0]

find_container(s, import, name) ==
    IF MapHas(s.g.imports[import].type_table, name)
    THEN MapGet(s.g.imports[import].type_table, name) ELSE NullType

analyze_symbol_expr(s, import, node, variable_name) ==
    LET var == find_variable(s, import, variable_name)
        container_type == find_container(s, import, variable_name)
    IN IF primitive_type_table(variable_name) # NullType
       THEN resolve_expr_const_val_as_type(s, primitive_type_table(variable_name))
       ELSE IF var.type # NullType
       THEN IF /\ var.is_const
               /\ s.ast[var.decl_node].kind = "var"
               /\ s.ast[var.decl_node].expr.const_val.ok
            \* resolve_expr_const_val_as_other_expr
            THEN ExprRet(s, s.ast[var.decl_node].expr.type_entry, TRUE,
                         s.ast[var.decl_node].expr.const_val.x_type)
            ELSE ExprRet(s, var.type, FALSE, NullType)
       ELSE IF container_type # NullType
       THEN resolve_expr_const_val_as_type(s, container_type)
       \* the programs declare no functions: import->fn_table is empty
       ELSE ExprRet(add_node_error(s, node, "use of undeclared identifier '"
                                             \o variable_name \o "'"),
                    entry_invalid, FALSE, NullType)

\* resolve_type on an analyzed expression: the type it denotes, or invalid
resolve_type(r, node) ==
    LET id == r.s.g.types[r.type_entry].id
    IN IF id = "Invalid" THEN [s |-> r.s, h |-> entry_invalid]
       ELSE IF id # "MetaType"
       THEN [s |-> add_node_error(r.s, node, "expected type, found expression"),
             h |-> entry_invalid]
       ELSE IF ~r.const_val.ok
       THEN [s |-> add_node_error(r.s, node, "unable to resolve constant expression"),
             h |-> entry_invalid]
       ELSE [s |-> r.s, h |-> r.const_val.x_type]

\* observes a size-dependent operation on child: whether child was complete,
\* being resolved or invalid when the derived type's size was computed
LogSizeOp(s, op, child, r) ==
    [s EXCEPT !.g.types = r.types,
              !.log = Append(@, [ev |-> "sizeop", op |-> op, child |-> child,
                                 id |-> s.g.types[child].id,
                                 complete |-> s.g.types[child].complete,
                                 embedded_in_current |-> s.g.types[child].embedded_in_current,
                                 is_invalid |-> s.g.types[child].is_invalid,
                                 created |-> Len(r.types) > Len(s.g.types),
                                 h |-> r.h])]

\* the child of `[n]T`, `?T`, `%T`: analyze_type_expr on the symbol T
analyze_child_type(s, import, node, e) ==
    resolve_type(analyze_symbol_expr(s, import, node, e.symbol), node)

analyze_array_type(s, import, node, e) ==
    With(analyze_child_type(s, import, node, e), LAMBDA c :
        LET id == c.s.g.types[c.h].id
        IN IF id = "Unreachable"
           THEN ExprRet(add_node_error(c.s, node, "array of unreachable not allowed"),
                        entry_invalid, FALSE, NullType)
           ELSE IF id = "Invalid" THEN ExprRet(c.s, entry_invalid, FALSE, NullType)
           ELSE With(get_array_type(c.s.g.types, c.h, e.size), LAMBDA arr :
                    resolve_expr_const_val_as_type(LogSizeOp(c.s, "array", c.h, arr),
                                                   arr.h)))

\* analyze_prefix_op_expr for `&T` (PrefixOpAddressOf), `?T` (PrefixOpMaybe) and
\* `%T` (PrefixOpError) on a symbol
analyze_prefix_op_expr(s, import, node, e) ==
    With(analyze_symbol_expr(s, import, node, e.symbol), LAMBDA r :
        LET id == r.s.g.types[r.type_entry].id
        IN IF id = "Invalid" THEN ExprRet(r.s, entry_invalid, FALSE, NullType)
           ELSE IF id = "MetaType"
           THEN With(resolve_type(r, node), LAMBDA m :
                    LET mid == m.s.g.types[m.h].id
                    IN IF mid = "Invalid" THEN ExprRet(m.s, entry_invalid, FALSE, NullType)
                       ELSE IF mid = "Unreachable"
                       THEN ExprRet(add_node_error(m.s, node,
                               CASE e.op = "ptr" -> "pointer to unreachable not allowed"
                                 [] e.op = "maybe" -> "unable to wrap unreachable in maybe type"
                                 [] OTHER -> "unable to wrap unreachable in error type"),
                               entry_invalid, FALSE, NullType)
                       ELSE CASE e.op = "ptr" ->
                               With(get_pointer_to_type(m.s.g.types, m.h, FALSE,
                                                        m.s.g.pointer_size_bytes),
                                    LAMBDA ptr : resolve_expr_const_val_as_type(
                                        [m.s EXCEPT !.g.types = ptr.types], ptr.h))
                              [] e.op = "maybe" ->
                               With(get_maybe_type(m.s.g.types, m.h),
                                    LAMBDA maybe : resolve_expr_const_val_as_type(
                                        LogSizeOp(m.s, "maybe", m.h, maybe), maybe.h))
                              [] OTHER ->
                               With(get_error_type(m.s.g.types, m.h, m.s.g.err_tag_bits),
                                    LAMBDA err : resolve_expr_const_val_as_type(
                                        LogSizeOp(m.s, "error", m.h, err), err.h)))
           \* a symbol that is no type: the programs declare no runtime variables
           ELSE ExprRet(r.s, entry_invalid, FALSE, NullType))

analyze_expression(s, import, node, e) ==
    CASE e.op = "sym" -> analyze_symbol_expr(s, import, node, e.symbol)
      [] e.op = "array" -> analyze_array_type(s, import, node, e)
      [] OTHER -> analyze_prefix_op_expr(s, import, node, e)

\* analyze_type_expr: analyze_expression, then resolve_type
analyze_type_expr(s, import, node, e) ==
    resolve_type(analyze_expression(s, import, node, e), node)

\* ------------------------------------------------------------------ struct and enum bodies

\* bits_needed_for_unsigned; x <= UINT32_MAX is written on the upper half of x
bits_needed_for_unsigned(x) ==
    IF x <= 255 THEN 8
    ELSE IF x <= 65535 THEN 16
    ELSE IF x \div 65536 <= 65535 THEN 32
    ELSE 64

\* the end of resolve_struct_type with complete set only for a valid struct:
\* a variant the completeness property must tell from the code
finish_struct_type_if_valid(T, struct_type, acc) ==
    LET e == T[struct_type]
    IN [T EXCEPT ![struct_type] =
          [e EXCEPT !.embedded_in_current = FALSE,
                    !.gen_field_count = acc.gen_field_index,
                    !.complete = ~e.is_invalid,
                    !.align_in_bits = IF e.is_invalid THEN @ ELSE acc.first_field_align_in_bits,
                    !.size_in_bits = IF e.is_invalid THEN @ ELSE acc.total_size_in_bits]]

\* the end of resolve_struct_type, after the loop over the fields
finish_struct_type(T, struct_type, acc) ==
    LET e == T[struct_type]
    IN [T EXCEPT ![struct_type] =
          [e EXCEPT !.embedded_in_current = FALSE,
                    !.gen_field_count = acc.gen_field_index,
                    !.complete = TRUE,
                    !.align_in_bits = IF e.is_invalid THEN @ ELSE acc.first_field_align_in_bits,
                    !.size_in_bits = IF e.is_invalid THEN @ ELSE acc.total_size_in_bits]]

\* the end of resolve_enum_type, after the loop over the fields
finish_enum_type(T, enum_type, field_count, acc) ==
    LET e == T[enum_type]
        tag_bits == bits_needed_for_unsigned(field_count)
    IN [T EXCEPT ![enum_type] =
          [e EXCEPT !.embedded_in_current = FALSE,
                    !.complete = TRUE,
                    !.gen_field_count = IF e.is_invalid THEN @ ELSE acc.gen_field_index,
                    !.align_in_bits = IF e.is_invalid THEN @ ELSE tag_bits,
                    !.size_in_bits = IF e.is_invalid THEN @
                                     ELSE tag_bits + acc.biggest_union_member_size_in_bits]]

\* the report without the reported_infinite_err flag: a variant the
\* once-per-type property must tell from the code
report_infinite_size_always(s, t, what) ==
    add_node_error(s, <<s.g.types[t].decl_node, 0>>, what \o " has infinite size")

\* the report of a struct or enum reached again while its body is resolved
report_infinite_size(s, t, what) ==
    IF s.g.types[t].reported_infinite_err THEN s
    ELSE add_node_error([s EXCEPT !.g.types[t].reported_infinite_err = TRUE],
                        <<s.g.types[t].decl_node, 0>>, what \o " has infinite size")

RECURSIVE resolve_struct_type(_, _, _)
RECURSIVE resolve_enum_type(_, _, _)
RECURSIVE resolve_struct_fields(_, _, _, _, _)
RECURSIVE resolve_enum_fields(_, _, _, _, _)

\* one field of a body: its type is analyzed and stored, a struct or enum
\* field type is resolved in turn, an invalid one marks the container invalid
resolve_field(s, import, container, i) ==
    LET decl_node == s.g.types[container].decl_node
        field_node == s.ast[decl_node].fields[i]
    IN With(analyze_type_expr(s, import, <<decl_node, i>>, field_node.type), LAMBDA r :
           LET s1 == [r.s EXCEPT !.g.types[container].fields =
                                     Append(@, [name |-> field_node.name,
                                                type_entry |-> r.h])]
               id == s1.g.types[r.h].id
           IN [h |-> r.h,
               s |-> CASE id = "Struct" -> resolve_struct_type(s1, import, r.h)
                       [] id = "Enum" -> resolve_enum_type(s1, import, r.h)
                       [] id = "Invalid" ->
                              [s1 EXCEPT !.g.types[container].is_invalid = TRUE]
                       [] OTHER -> s1])

\* the loop over the fields of resolve_struct_type from field i on
resolve_struct_fields(s, import, struct_type, i, acc) ==
    IF i > Len(s.ast[s.g.types[struct_type].decl_node].fields)
    THEN [s |-> s, acc |-> acc]
    ELSE With(resolve_field(s, import, struct_type, i), LAMBDA f :
             LET fe == f.s.g.types[f.h]
             IN IF fe.id \in {"Invalid", "Void"}
                THEN resolve_struct_fields(f.s, import, struct_type, i + 1, acc)
                ELSE resolve_struct_fields(f.s, import, struct_type, i + 1,
                        [total_size_in_bits |-> acc.total_size_in_bits + fe.size_in_bits,
                         first_field_align_in_bits |->
                             IF acc.first_field_align_in_bits = 0 THEN fe.align_in_bits
                             ELSE acc.first_field_align_in_bits,
                         gen_field_index |-> acc.gen_field_index + 1]))

resolve_struct_type(s, import, struct_type) ==
    IF s.g.types[struct_type].embedded_in_current
    THEN report_infinite_size(s, struct_type, "struct")
    ELSE IF s.g.types[struct_type].has_fields
    THEN s  \* already resolved
    ELSE LET s1 == [s EXCEPT !.g.types[struct_type].has_fields = TRUE,
                             !.g.types[struct_type].embedded_in_current = TRUE]
         IN With(resolve_struct_fields(s1, import, struct_type, 1,
                     [total_size_in_bits |-> 0, first_field_align_in_bits |-> 0,
                      gen_field_index |-> 0]),
                 LAMBDA l : [l.s EXCEPT !.g.types =
                                finish_struct_type(@, struct_type, l.acc)])

\* the loop over the fields of resolve_enum_type from field i on
resolve_enum_fields(s, import, enum_type, i, acc) ==
    IF i > Len(s.ast[s.g.types[enum_type].decl_node].fields)
    THEN [s |-> s, acc |-> acc]
    ELSE With(resolve_field(s, import, enum_type, i), LAMBDA f :
             LET fe == f.s.g.types[f.h]
             IN IF fe.id \in {"Invalid", "Void"}
                THEN resolve_enum_fields(f.s, import, enum_type, i + 1, acc)
                ELSE resolve_enum_fields(f.s, import, enum_type, i + 1,
                        [biggest_union_member_size_in_bits |->
                             IF acc.gen_field_index = 0
                                \/ fe.size_in_bits > acc.biggest_union_member_size_in_bits
                             THEN fe.size_in_bits
                             ELSE acc.biggest_union_member_size_in_bits,
                         gen_field_index |-> acc.gen_field_index + 1]))

resolve_enum_type(s, import, enum_type) ==
    IF s.g.types[enum_type].embedded_in_current
    THEN report_infinite_size(s, enum_type, "enum")
    ELSE IF s.g.types[enum_type].has_fields
    THEN s  \* already resolved
    ELSE LET s1 == [s EXCEPT !.g.types[enum_type].has_fields = TRUE,
                             !.g.types[enum_type].embedded_in_current = TRUE]
         IN With(resolve_enum_fields(s1, import, enum_type, 1,
                     [biggest_union_member_size_in_bits |-> 0, gen_field_index |-> 0]),
                 LAMBDA l : [l.s EXCEPT !.g.types =
                                finish_enum_type(@, enum_type,
                                    Len(s.ast[s.g.types[enum_type].decl_node].fields),
                                    l.acc)])

\* ------------------------------------------------------------------ top-level declarations

\* add_local_var at the top level of the import: a constant named name
add_local_var(s, import, node, name, type_entry) ==
    LET shadowed == IF primitive_type_table(name) # NullType
                    THEN primitive_type_table(name) ELSE find_container(s, import, name)
        s1 == IF find_variable(s, import, name).type # NullType
              THEN add_node_error(s, <<node, 0>>, "redeclaration of variable '" \o name \o "'")
              ELSE IF shadowed # NullType
              THEN add_node_error(s, <<node, 0>>, "variable shadows type '"
                                                  \o s.g.types[shadowed].name \o "'")
              ELSE s
        type == IF Len(s1.g.errors) > Len(s.g.errors) THEN entry_invalid ELSE type_entry
    IN [s1 EXCEPT !.g.imports[import].variable_table =
                      MapPut(@, name, [type |-> type, is_const |-> TRUE, decl_node |-> node])]

\* analyze_variable_declaration_raw for `const name = expr;` at the top level
analyze_variable_declaration(s, import, node) ==
    With(analyze_expression(s, import, <<node, 1>>, s.ast[node].fields[1].type), LAMBDA r :
        LET s1 == [r.s EXCEPT !.ast[node].expr =
                                  [type_entry |-> r.type_entry, const_val |-> r.const_val]]
            id == s1.g.types[r.type_entry].id
            s2 == IF id = "Unreachable"
                  THEN add_node_error(s1, <<node, 0>>,
                                      "variable initialization is unreachable")
                  ELSE IF id # "Invalid" /\ ~r.const_val.ok
                  THEN add_node_error(s1, <<node, 1>>,
                           "global variable initializer requires constant expression")
                  ELSE s1
            implicit_type == IF id = "Unreachable" THEN entry_invalid ELSE r.type_entry
        IN add_local_var(s2, import, node, s.ast[node].name, implicit_type))

\* satisfy_dep that leaves the unresolved table as it is: a variant the
\* termination property must tell from the code
satisfy_dep_kept(s, node) == s

\* satisfy_dep
satisfy_dep(s, node) ==
    [s EXCEPT !.g.unresolved_top_level_decls = MapRemove(@, s.ast[node].name)]

\* resolve_top_level_decl; the log keeps which declaration was resolved when
resolve_top_level_decl(s, import, node) ==
    LET s0 == [s EXCEPT !.log = Append(@, [ev |-> "resolve", node |-> node])]
        s1 == CASE s.ast[node].kind = "struct" ->
                       resolve_struct_type(s0, import, s.ast[node].type_entry)
                [] s.ast[node].kind = "enum" ->
                       resolve_enum_type(s0, import, s.ast[node].type_entry)
                [] OTHER -> analyze_variable_declaration(s0, import, node)
    IN satisfy_dep(s1, node)

\* collect_expr_decl_deps: the symbol of the expression is a dependency unless
\* it names a primitive type or a type the import already has
collect_expr_decl_deps(s, import, e, deps) ==
    IF primitive_type_table(e.symbol) = NullType
       /\ ~MapHas(s.g.imports[import].type_table, e.symbol)
    THEN MapPut(deps, e.symbol, e) ELSE deps

RECURSIVE collect_fields_decl_deps(_, _, _, _, _)
collect_fields_decl_deps(s, import, fields, i, deps) ==
    IF i > Len(fields) THEN deps
    ELSE collect_fields_decl_deps(s, import, fields, i + 1,
                                  collect_expr_decl_deps(s, import, fields[i].type, deps))

\* the declaration goes to the unresolved table when it has dependencies and
\* is resolved at once when it has none
resolve_or_defer(s, import, node, deps) ==
    LET s1 == [s EXCEPT !.ast[node].deps = deps]
    IN IF Len(deps) > 0
       THEN [s1 EXCEPT !.g.unresolved_top_level_decls = MapPut(@, s.ast[node].name, node)]
       ELSE resolve_top_level_decl(s1, import, node)

\* detect_top_level_decl_deps on one declaration of the root
detect_top_level_decl_deps(s, import, node) ==
    LET decl == s.ast[node]
        name == decl.name
        existing == IF primitive_type_table(name) # NullType
                    THEN primitive_type_table(name) ELSE find_container(s, import, name)
        h == Len(s.g.types) + 1
        entry == [new_type_table_entry(IF decl.kind = "struct" THEN "Struct" ELSE "Enum")
                    EXCEPT !.decl_node = node, !.name = name]
        s1 == IF decl.kind = "var" THEN s
              ELSE IF existing # NullType
              THEN add_node_error([s EXCEPT !.ast[node].type_entry = existing],
                                  <<node, 0>>, "redefinition of '" \o name \o "'")
              ELSE [s EXCEPT !.g.types = Append(@, entry),
                             !.g.imports[import].type_table = MapPut(@, name, h),
                             !.ast[node].type_entry = h]
    IN resolve_or_defer(s1, import, node,
                        collect_fields_decl_deps(s1, import, decl.fields, 1, <<>>))

\* ------------------------------------------------------------------ the dependency graph

\* an iteration order of a hash map keyed by declaration names: a permutation
\* of the names; the entries of a map come in the order their keys have in it
IterationOrders ==
    {o \in [1..MaxDecls -> {DeclNames[i] : i \in 1..MaxDecls}] :
        \A i, j \in 1..MaxDecls : o[i] = o[j] => i = j}

entry_iterator(m, order) ==
    SelectSeq(order, LAMBDA k : MapHas(m, k))

\* a dependency loop that reports it: a variant the silent-skip property must
\* tell from the code
dependency_loop_reported(s, node, child_node) ==
    add_node_error(s, <<node, 0>>, "dependency loop")

\* recursive_resolve_decl on a dependency that is in_current_deps: `continue`
dependency_loop(s, node, child_node) == s

RECURSIVE recursive_resolve_decl(_, _, _, _)
RECURSIVE resolve_deps(_, _, _, _, _)

\* the loop of recursive_resolve_decl over the dependencies from the i-th on
resolve_deps(s, import, node, order, i) ==
    LET it == entry_iterator(s.ast[node].deps, order)
    IN IF i > Len(it) THEN s
       ELSE IF ~MapHas(s.g.unresolved_top_level_decls, it[i])
       THEN resolve_deps(s, import, node, order, i + 1)
       ELSE LET child_node == MapGet(s.g.unresolved_top_level_decls, it[i])
                looped == dependency_loop(s, node, child_node)
                set == [s EXCEPT !.ast[child_node].in_current_deps = TRUE]
                done == recursive_resolve_decl(set, import, child_node, order)
            IN IF s.ast[child_node].in_current_deps
               THEN resolve_deps(
                       [looped EXCEPT !.log = Append(@,
                           [ev |-> "loop", node |-> node, child |-> child_node,
                            errors_before |-> Len(s.g.errors),
                            errors_after |-> Len(looped.g.errors)])],
                       import, node, order, i + 1)
               ELSE resolve_deps([done EXCEPT !.ast[child_node].in_current_deps = FALSE],
                                 import, node, order, i + 1)

recursive_resolve_decl(s, import, node, order) ==
    resolve_top_level_decl(resolve_deps(s, import, node, order, 1), import, node)

\* the unresolved declaration with the lowest create_index
lowest_create_index(unresolved) ==
    CHOOSE n \in {unresolved[i][2] : i \in 1..Len(unresolved)} :
        \A i \in 1..Len(unresolved) : n <= unresolved[i][2]

\* one round of the loop of resolve_top_level_declarations_root
resolve_lowest_unresolved(s, import, order) ==
    LET decl_node == lowest_create_index(s.g.unresolved_top_level_decls)
        set == [s EXCEPT !.ast[decl_node].in_current_deps = TRUE]
        done == recursive_resolve_decl(set, import, decl_node, order)
    IN [done EXCEPT !.ast[decl_node].in_current_deps = FALSE]

RECURSIVE resolve_top_level_declarations_root(_, _, _)
resolve_top_level_declarations_root(s, import, order) ==
    IF Len(s.g.unresolved_top_level_decls) = 0 THEN s
    ELSE resolve_top_level_declarations_root(
             resolve_lowest_unresolved(s, import, order), import, order)

\* ------------------------------------------------------------------ semantic_analyze

Session == [g |-> g, ast |-> ast, log |-> hist.log]

Commit(s) ==
    \E r \in {s} :
        /\ g' = r.g
        /\ ast' = r.ast
        /\ hist' = [hist EXCEPT !.log = r.log]

\* the loop that calls detect_top_level_decl_deps on each declaration of the root
DetectTopLevelDeclDeps ==
    /\ pc.at = "detect"
    /\ Commit(detect_top_level_decl_deps(Session, "root", pc.index))
    /\ pc' = IF pc.index < Len(ast) THEN [pc EXCEPT !.index = @ + 1]
             ELSE [at |-> "resolve", index |-> 0]

\* one round of resolve_top_level_declarations_root, the dependency tables
\* iterated in some order
ResolveTopLevelDeclarationsRoot ==
    /\ pc.at = "resolve"
    /\ Len(g.unresolved_top_level_decls) > 0
    /\ \E order \in IterationOrders :
           Commit(resolve_lowest_unresolved(Session, "root", order))
    /\ UNCHANGED pc

\* analyze_top_level_decls_root: the programs have no function bodies to analyze
AnalyzeTopLevelDeclsRoot ==
    /\ pc.at = "resolve"
    /\ Len(g.unresolved_top_level_decls) = 0
    /\ pc' = [at |-> "done", index |-> 0]
    /\ UNCHANGED <<g, ast, hist>>

InitDecl ==
    /\ g = NewCodeGen(8)
    /\ ast \in Programs
    /\ pc = [at |-> "detect", index |-> 1]
    /\ hist = NoHist

NextDecl ==
    \/ DetectTopLevelDeclDeps
    \/ ResolveTopLevelDeclarationsRoot
    \/ AnalyzeTopLevelDeclsRoot

SpecDecl == InitDecl /\ [][NextDecl]_vars

\* ------------------------------------------------------------------ properties of the dependency graph

\* the declarations whose names declaration i references
References(i) ==
    {j \in 1..Len(ast) :
        \E k \in 1..Len(ast[i].fields) : ast[i].fields[k].type.symbol = ast[j].name}

\* the declarations reached from declaration i by at most n references
RECURSIVE ReferencesWithin(_, _)
ReferencesWithin(i, n) ==
    IF n = 0 THEN {}
    ELSE References(i) \cup UNION {ReferencesWithin(j, n - 1) : j \in References(i)}

Acyclic == \A i \in 1..Len(ast) : i \notin ReferencesWithin(i, Len(ast))

LogAt(ev) == {k \in 1..Len(hist.log) : hist.log[k].ev = ev}

UndeclaredErrors ==
    {k \in 1..Len(g.errors) :
        \E i \in 1..Len(ast) :
            g.errors[k].msg = "use of undeclared identifier '" \o ast[i].name \o "'"}

\* C2: in a program whose declarations reference each other without a cycle,
\* a declaration is resolved only after every declaration it references has
\* been resolved, and no undeclared-identifier error is reported.
C2_ResolvedAfterReferences ==
    Acyclic =>
        /\ \A k \in LogAt("resolve") :
               \A j \in References(hist.log[k].node) :
                   \E k2 \in LogAt("resolve") : k2 < k /\ hist.log[k2].node = j
        /\ UndeclaredErrors = {}

\* the types a type holds by value: the field types of a struct or enum, the
\* element of an array, the payload of an error union
ByValue(T, h) ==
    CASE T[h].id \in {"Struct", "Enum"} /\ ~T[h].is_unknown_size_array ->
             {T[h].fields[i].type_entry : i \in 1..Len(T[h].fields)}
      [] T[h].id \in {"Array", "ErrorUnion"} -> {T[h].child_type}
      [] OTHER -> {}

RECURSIVE ByValueWithin(_, _, _)
ByValueWithin(T, h, n) ==
    IF n = 0 THEN {}
    ELSE ByValue(T, h) \cup UNION {ByValueWithin(T, c, n - 1) : c \in ByValue(T, h)}

DeclaredContainers ==
    {h \in 1..Len(g.types) : g.types[h].id \in {"Struct", "Enum"} /\ g.types[h].decl_node # 0}

ContainsItself(h) == h \in ByValueWithin(g.types, h, Len(g.types) - Len(BuiltinTypes))

InfiniteSizeErrors ==
    {k \in 1..Len(g.errors) :
        g.errors[k].msg \in {"struct has infinite size", "enum has infinite size"}}

\* C3: when the analysis is done, a program with a struct or enum that holds
\* itself by value (through fields, arrays or error unions) has an "infinite
\* size" diagnostic.
C3_InfiniteSizeReported ==
    (pc.at = "done" /\ \E h \in DeclaredContainers : ContainsItself(h))
        => InfiniteSizeErrors # {}

ErrorSet(s) == {s.g.errors[k] : k \in 1..Len(s.g.errors)}

\* C4: from the end of dependency detection on, the set of errors the
\* resolution ends with is the same for every iteration order of the
\* dependency tables.
C4_ErrorsIndependentOfOrder ==
    pc.at = "resolve" =>
        \A o1, o2 \in IterationOrders :
            ErrorSet(resolve_top_level_declarations_root(Session, "root", o1))
                = ErrorSet(resolve_top_level_declarations_root(Session, "root", o2))

\* C6: whenever the size of an array, optional or error union over a
\* non-invalid struct or enum was computed, the struct or enum was complete or
\* was being resolved (embedded_in_current).
C6_SizeOpsOnCompleteTypes ==
    \A k \in LogAt("sizeop") :
        (hist.log[k].created /\ hist.log[k].id \in {"Struct", "Enum"}
                             /\ ~hist.log[k].is_invalid)
            => (hist.log[k].complete \/ hist.log[k].embedded_in_current)

\* C7: when resolution reaches a dependency whose in_current_deps is already
\* true, the dependency is skipped and no diagnostic is reported at that point.
C7_LoopSkippedSilently ==
    \A k \in LogAt("loop") : hist.log[k].errors_after = hist.log[k].errors_before

\* C7 witness: the resolution of a cyclic dependency has reached a dependency
\* that is in_current_deps.
C7_Witness == LogAt("loop") # {}

\* C7 as stated: a diagnostic is reported where the loop is reached.
C7_LoopReportedAtThatPoint ==
    \A k \in LogAt("loop") : hist.log[k].errors_after > hist.log[k].errors_before

ResolvedBodies == {h \in DeclaredContainers : g.types[h].has_fields}

HasInvalidField(h) ==
    \E i \in 1..Len(g.types[h].fields) : g.types[h].fields[i].type_entry = entry_invalid

\* C10: after the body of a struct or enum was resolved, complete is true
\* whether or not its fields resolved without error; is_invalid is true exactly
\* when a field's type did not resolve.
C10_CompleteAfterBody ==
    \A h \in ResolvedBodies :
        /\ g.types[h].complete
        /\ ~g.types[h].embedded_in_current
        /\ g.types[h].is_invalid <=> HasInvalidField(h)

\* C10 witness: a resolved body with a field that did not resolve.
C10_Witness ==
    \E h \in ResolvedBodies : g.types[h].complete /\ HasInvalidField(h)

\* C10 as stated: complete is true exactly when all fields resolved without error.
C10_CompleteIffFieldsResolved ==
    \A h \in ResolvedBodies : g.types[h].complete <=> ~HasInvalidField(h)

\* the "infinite size" diagnostics reported on the declaration of type h
InfiniteSizeErrorsOn(h) ==
    {k \in InfiniteSizeErrors : g.errors[k].node = <<g.types[h].decl_node, 0>>}

\* the declarations `struct S { a: S, }`
SelfStructs ==
    {i \in 1..Len(ast) : /\ ast[i].kind = "struct"
                         /\ Len(ast[i].fields) = 1
                         /\ ast[i].fields[1].type = Symbol(ast[i].name)}

\* C11: the "infinite size" diagnostic is reported at most once per struct or
\* enum type, however often the type is reached while embedded_in_current;
\* after the analysis of `struct S { a: S, }` there is exactly one error
\* "struct has infinite size" on S and S is complete.
C11_InfiniteSizeOnce ==
    /\ \A h \in DeclaredContainers : Cardinality(InfiniteSizeErrorsOn(h)) <= 1
    /\ pc.at = "done" =>
          \A i \in SelfStructs :
              /\ Cardinality(InfiniteSizeErrorsOn(ast[i].type_entry)) = 1
              /\ \A k \in InfiniteSizeErrorsOn(ast[i].type_entry) :
                     g.errors[k].msg = "struct has infinite size"
              /\ g.types[ast[i].type_entry].complete

\* a struct or enum that was reached twice while its own body was resolved (two
\* fields of its own type) and a `struct S { a: S, }`, each with its one error
C11_Witness ==
    /\ pc.at = "done"
    /\ \E h \in DeclaredContainers :
          /\ Len(g.types[h].fields) = 2
          /\ \A i \in 1..2 : g.types[h].fields[i].type_entry = h
          /\ Cardinality(InfiniteSizeErrorsOn(h)) = 1
    /\ \E i \in SelfStructs : Cardinality(InfiniteSizeErrorsOn(ast[i].type_entry)) = 1

\* ------------------------------------------------------------------ peer types

entry_i64 == Builtin("i64")

RECURSIVE types_match_const_cast_only(_, _, _)
types_match_const_cast_only(T, expected_type, actual_type) ==
    LET e == T[expected_type]
        a == T[actual_type]
    IN IF expected_type = actual_type THEN TRUE
       ELSE IF e.id = "Pointer" /\ a.id = "Pointer" /\ (~a.is_const \/ e.is_const)
       THEN types_match_const_cast_only(T, e.child_type, a.child_type)
       ELSE IF /\ e.id = "Struct" /\ a.id = "Struct"
               /\ e.is_unknown_size_array /\ a.is_unknown_size_array
               /\ (~T[a.fields[1].type_entry].is_const \/ T[e.fields[1].type_entry].is_const)
       THEN types_match_const_cast_only(T, T[e.fields[1].type_entry].child_type,
                                        T[a.fields[1].type_entry].child_type)
       ELSE IF e.id = "Maybe" /\ a.id = "Maybe"
       THEN types_match_const_cast_only(T, e.child_type, a.child_type)
       ELSE IF e.id = "ErrorUnion" /\ a.id = "ErrorUnion"
       THEN types_match_const_cast_only(T, e.child_type, a.child_type)
       ELSE FALSE

\* integer peers that only unify when they are the same type: a variant the
\* widening property must tell from the code
peer_ints_never(T, prev_type, cur_type) == FALSE

\* the integer branch of determine_peer_type_compatibility: two integers of
\* the same signedness
peer_ints(T, prev_type, cur_type) ==
    /\ T[prev_type].id = "Int"
    /\ T[cur_type].id = "Int"
    /\ T[prev_type].is_signed = T[cur_type].is_signed

\* a node of a function body, named by the path of child indices that leads
\* to it from the body
RECURSIVE NodeAt(_, _)
NodeAt(e, node) == IF node = <<>> THEN e ELSE NodeAt(e.kids[Head(node)], Tail(node))

\* num_lit_fits_in_other_type without its diagnostic: the integer literals of
\* the programs are small, they fit every integer type
num_lit_fits_in_other_type(T, other_type) == T[other_type].id \in {"Int", "NumLitInt"}

\* the diagnostic of num_lit_fits_in_other_type on an integer literal that does
\* not fit other_type
num_lit_error(s, node, other_type) ==
    IF s.g.types[other_type].id = "Invalid" THEN s
    ELSE add_node_error(s, node, "integer value " \o NodeAt(s.ast.body, node).name
                                 \o " cannot be implicitly casted to type '"
                                 \o s.g.types[other_type].name \o "'")

\* determine_peer_type_compatibility from child i on, prev_type and prev_node
\* being what the loop has kept so far; the sessions have no float types
RECURSIVE determine_peer_type_compatibility(_, _, _, _, _, _, _)
determine_peer_type_compatibility(s, parent_source_node, child_nodes, child_types, prev_type, prev_node, i) ==
    LET T == s.g.types
        cur_type == child_types[i]
        cur_node == child_nodes[i]
        keep == determine_peer_type_compatibility(s, parent_source_node, child_nodes,
                                                  child_types, prev_type, prev_node, i + 1)
        take == determine_peer_type_compatibility(s, parent_source_node, child_nodes,
                                                  child_types, cur_type, cur_node, i + 1)
    IN IF T[prev_type].id = "Invalid" \/ i > Len(child_types)
       THEN [s |-> s, h |-> prev_type]
       ELSE IF T[cur_type].id = "Invalid" THEN [s |-> s, h |-> cur_type]
       ELSE IF types_match_const_cast_only(T, prev_type, cur_type) THEN keep
       ELSE IF types_match_const_cast_only(T, cur_type, prev_type) THEN take
       ELSE IF T[prev_type].id = "Unreachable" THEN take
       ELSE IF T[cur_type].id = "Unreachable" THEN keep
       ELSE IF peer_ints(T, prev_type, cur_type)
       THEN IF T[cur_type].size_in_bits > T[prev_type].size_in_bits THEN take ELSE keep
       ELSE IF /\ T[prev_type].id = "ErrorUnion"
               /\ types_match_const_cast_only(T, T[prev_type].child_type, cur_type)
       THEN keep
       ELSE IF /\ T[cur_type].id = "ErrorUnion"
               /\ types_match_const_cast_only(T, T[cur_type].child_type, prev_type)
       THEN take
       ELSE IF T[prev_type].id = "NumLitInt"
       THEN IF num_lit_fits_in_other_type(T, cur_type) THEN take
            ELSE [s |-> num_lit_error(s, prev_node, cur_type), h |-> entry_invalid]
       ELSE IF T[cur_type].id = "NumLitInt"
       THEN IF num_lit_fits_in_other_type(T, prev_type) THEN keep
            ELSE [s |-> num_lit_error(s, cur_node, prev_type), h |-> entry_invalid]
       ELSE [s |-> add_node_error(s, parent_source_node,
                       "incompatible types: '" \o T[prev_type].name \o "' and '"
                       \o T[cur_type].name \o "'"),
             h |-> entry_invalid]

RECURSIVE types_match_with_implicit_cast(_, _, _)
types_match_with_implicit_cast(T, expected_type, actual_type) ==
    LET e == T[expected_type]
        a == T[actual_type]
    IN \/ types_match_const_cast_only(T, expected_type, actual_type)
       \/ /\ e.id \in {"Maybe", "ErrorUnion"}
          /\ types_match_with_implicit_cast(T, e.child_type, actual_type)
       \/ e.id = "ErrorUnion" /\ a.id = "PureError"
       \/ /\ e.id = "Int" /\ a.id = "Int"
          /\ e.is_signed = a.is_signed
          /\ e.size_in_bits >= a.size_in_bits
       \/ /\ e.id = "Struct" /\ e.is_unknown_size_array /\ a.id = "Array"
          /\ types_match_const_cast_only(T, T[e.fields[1].type_entry].child_type, a.child_type)
       \/ a.id = "NumLitInt" /\ num_lit_fits_in_other_type(T, expected_type)

\* the diagnostics of num_lit_fits_in_other_type when the integer literal at
\* node does not match expected_type, in the order of the calls that
\* types_match_with_implicit_cast makes: the child of a maybe or error union
\* type first
RECURSIVE num_lit_errors(_, _, _)
num_lit_errors(s, node, expected_type) ==
    LET e == s.g.types[expected_type]
        s1 == IF e.id \in {"Maybe", "ErrorUnion"}
              THEN num_lit_errors(s, node, e.child_type) ELSE s
    IN IF e.id = "Invalid" THEN s1
       ELSE add_node_error(s1, node, "integer value " \o NodeAt(s.ast.body, node).name
                                     \o " cannot be implicitly casted to type '"
                                     \o e.name \o "'")

\* what analyze_cast_expr leaves: the session, the cast op set on the call
\* node (NoCast when it sets none) and the type of the cast expression
CastRet(s, cast_op, h) == [s |-> s, cast_op |-> cast_op, h |-> h]

\* bignum_fits_in_bits for the number of error values, which the sessions keep
\* far below 2^31
error_count_fits_in_bits(T, error_value_count, type) ==
    \/ T[type].size_in_bits >= 32
    \/ error_value_count < 2 ^ (T[type].size_in_bits - (IF T[type].is_signed THEN 1 ELSE 0))

\* analyze_cast_expr on a call node `wanted_type(operand)` with one parameter.
\* The operand is analyzed again without an expected type and has the type
\* actual_type it had.
analyze_cast_expr(s, node, wanted_type, actual_type) ==
    LET T == s.g.types
        w == T[wanted_type]
        a == T[actual_type]
    IN IF w.id = "Invalid" \/ a.id = "Invalid" THEN CastRet(s, "NoCast", entry_invalid)
       ELSE IF types_match_const_cast_only(T, wanted_type, actual_type)
       THEN CastRet(s, "Noop", wanted_type)
       ELSE IF wanted_type = entry_isize /\ a.id = "Pointer"
       THEN CastRet(s, "PtrToInt", wanted_type)
       ELSE IF w.id = "Pointer" /\ actual_type = entry_isize
       THEN CastRet(s, "IntToPtr", wanted_type)
       ELSE IF w.id = "Int" /\ a.id = "Int"
       THEN CastRet(s, "IntWidenOrShorten", wanted_type)
       ELSE IF /\ w.id = "Struct" /\ w.is_unknown_size_array /\ a.id = "Array"
               /\ types_match_const_cast_only(T, T[w.fields[1].type_entry].child_type,
                                              a.child_type)
       THEN CastRet(s, "ToUnknownSizeArray", wanted_type)
       ELSE IF a.id = "Pointer" /\ w.id = "Pointer"
       THEN CastRet(s, "PointerReinterpret", wanted_type)
       ELSE IF w.id = "Maybe" /\ types_match_const_cast_only(T, w.child_type, actual_type)
       THEN CastRet(s, "MaybeWrap", wanted_type)
       ELSE IF w.id = "Maybe" /\ a.id = "NumLitInt"
       THEN IF num_lit_fits_in_other_type(T, w.child_type)
            THEN CastRet(s, "MaybeWrap", wanted_type)
            ELSE CastRet(num_lit_error(s, node, w.child_type), "NoCast", entry_invalid)
       ELSE IF w.id = "ErrorUnion" /\ types_match_const_cast_only(T, w.child_type, actual_type)
       THEN CastRet(s, "ErrorWrap", wanted_type)
       ELSE IF w.id = "ErrorUnion" /\ a.id = "NumLitInt"
       THEN IF num_lit_fits_in_other_type(T, w.child_type)
            THEN CastRet(s, "ErrorWrap", wanted_type)
            ELSE CastRet(num_lit_error(s, node, w.child_type), "NoCast", entry_invalid)
       ELSE IF w.id = "ErrorUnion" /\ a.id = "PureError"
       THEN CastRet(s, "PureErrorWrap", wanted_type)
       ELSE IF a.id = "NumLitInt"
       THEN IF num_lit_fits_in_other_type(T, wanted_type)
            THEN CastRet(s, "Noop", wanted_type)
            ELSE CastRet(num_lit_error(s, node, wanted_type), "NoCast", entry_invalid)
       ELSE IF /\ w.id = "Int"
               /\ \/ a.id = "PureError"
                  \/ a.id = "ErrorUnion" /\ T[a.child_type].size_in_bits = 0
       THEN IF error_count_fits_in_bits(T, s.g.error_value_count, wanted_type)
            THEN CastRet(s, "ErrToInt", wanted_type)
            ELSE CastRet(add_node_error(s, node, "too many error values to fit in '"
                                                 \o w.name \o "'"),
                         "NoCast", entry_invalid)
       ELSE CastRet(add_node_error(s, node, "invalid cast from type '" \o a.name
                                            \o "' to '" \o w.name \o "'"),
                    "NoCast", entry_invalid)

\* create_and_analyze_cast_node: the operand at node becomes the parameter of
\* a call of cast_to_type, which is analyzed with cast_to_type expected
create_and_analyze_cast_node(s, node, cast_to_type, actual_type) ==
    With(analyze_cast_expr(s, node, cast_to_type, actual_type), LAMBDA c :
        [s |-> [c.s EXCEPT !.log = Append(@, [ev |-> "cast", node |-> node,
                                              wanted_type |-> cast_to_type,
                                              actual_type |-> actual_type,
                                              cast_op |-> c.cast_op, type |-> c.h,
                                              errors_before |-> Len(s.g.errors),
                                              errors_after |-> Len(c.s.g.errors)])],
         h |-> c.h])

\* resolve_type_compatibility: the type of the operand once it is made to fit
\* expected_type; an implicit cast is a cast node around the operand
resolve_type_compatibility(s, node, expected_type, actual_type) ==
    LET T == s.g.types
    IN IF expected_type = NullType THEN [s |-> s, h |-> actual_type]
       ELSE IF expected_type = actual_type THEN [s |-> s, h |-> expected_type]
       ELSE IF T[expected_type].id = "Invalid" \/ T[actual_type].id = "Invalid"
       THEN [s |-> s, h |-> entry_invalid]
       ELSE IF T[actual_type].id = "Unreachable" THEN [s |-> s, h |-> actual_type]
       ELSE IF types_match_with_implicit_cast(T, expected_type, actual_type)
       THEN create_and_analyze_cast_node(s, node, expected_type, actual_type)
       \* reported_err: the literal's own diagnostics stand for the mismatch
       ELSE IF T[actual_type].id = "NumLitInt"
       THEN [s |-> num_lit_errors(s, node, expected_type), h |-> entry_invalid]
       ELSE [s |-> add_node_error(s, node, "expected type '" \o T[expected_type].name
                                           \o "', got '" \o T[actual_type].name \o "'"),
             h |-> entry_invalid]

\* the loop of resolve_peer_type_compatibility over the operands from i on
RECURSIVE resolve_peer_children(_, _, _, _)
resolve_peer_children(s, expected_type, child_types, i) ==
    IF i > Len(child_types) THEN s
    ELSE LET r == resolve_type_compatibility(s, <<1, i>>, expected_type, child_types[i])
         IN resolve_peer_children([r.s EXCEPT !.ast.child_types[i] = r.h],
                                  expected_type, child_types, i + 1)

resolve_peer_type_compatibility(s, parent_source_node, child_types) ==
    LET d == determine_peer_type_compatibility(s, parent_source_node, <<<<1, 1>>, <<1, 2>>>>,
                                               child_types, child_types[1], <<1, 1>>, 2)
    IN IF d.s.g.types[d.h].id = "Invalid" THEN d
       ELSE [s |-> resolve_peer_children(d.s, d.h, child_types, 1), h |-> d.h]

\* analyze_if_then_else without an expected type, on the analyzed branches
analyze_if_then_else(s) ==
    LET r == resolve_peer_type_compatibility(s, <<1, 0>>,
                                             <<s.ast.then_type, s.ast.else_type>>)
    IN [r.s EXCEPT !.ast.type_entry = r.h]

\* the type table of the peer sessions: the builtin types and &i32,
\* &const i32, ?i32, %i32, %void
PeerTypeTable ==
    LET t1 == get_pointer_to_type(BuiltinTypes, entry_i32, FALSE, 8).types
        t2 == get_pointer_to_type(t1, entry_i32, TRUE, 8).types
        t3 == get_maybe_type(t2, entry_i32).types
        t4 == get_error_type(t3, entry_i32, 8).types
    IN get_error_type(t4, entry_void, 8).types

PeerOperandTypes == {h \in 1..Len(PeerTypeTable) : PeerTypeTable[h].id # "NumLitInt"}

AnalyzeIfThenElse ==
    /\ pc.at = "if"
    /\ Commit(analyze_if_then_else(Session))
    /\ pc' = [at |-> "done", index |-> 0]

\* an if expression whose branches have been analyzed to then_type and else_type
InitPeer ==
    /\ g = [NewCodeGen(8) EXCEPT !.types = PeerTypeTable]
    /\ \E then_type \in PeerOperandTypes, else_type \in PeerOperandTypes :
           ast = [then_type |-> then_type, else_type |-> else_type,
                  child_types |-> <<then_type, else_type>>, type_entry |-> NullType]
    /\ pc = [at |-> "if", index |-> 0]
    /\ hist = NoHist

NextPeer == AnalyzeIfThenElse

SpecPeer == InitPeer /\ [][NextPeer]_vars

IfOperands == {ast.then_type, ast.else_type}

\* C8: peer unification of i32 with i64 succeeds: the if expression gets the
\* wider type i64, both operands are made i64, and no diagnostic is reported.
C8_PeerIntsWiden ==
    (pc.at = "done" /\ IfOperands = {entry_i32, entry_i64})
        => /\ ast.type_entry = entry_i64
           /\ ast.child_types = <<entry_i64, entry_i64>>
           /\ g.errors = <<>>

\* C8 witness: an if expression over i32 and i64 has been analyzed.
C8_Witness ==
    /\ pc.at = "done"
    /\ IfOperands = {entry_i32, entry_i64}
    /\ ast.type_entry = entry_i64

\* C8 as stated: i32 with i64 fails with "incompatible types: 'i32' and 'i64'".
C8_PeerIntsIncompatible ==
    (pc.at = "done" /\ ast.then_type = entry_i32 /\ ast.else_type = entry_i64)
        => /\ g.types[ast.type_entry].id = "Invalid"
           /\ \E k \in 1..Len(g.errors) :
                  g.errors[k].msg = "incompatible types: 'i32' and 'i64'"

\* ------------------------------------------------------------------ the error tag type

\* how many error value declarations the root may have
MaxErrorValueDecls == 300

\* the first loop of semantic_analyze on one more error value declaration of
\* the root (error_value_count is 32 bits wide; the bound keeps it far below)
CountErrorValueDecl ==
    /\ pc.at = "count"
    /\ pc.index < MaxErrorValueDecls
    /\ g' = [g EXCEPT !.error_value_count = @ + 1]
    /\ pc' = [pc EXCEPT !.index = @ + 1]
    /\ UNCHANGED <<ast, hist>>

\* the root has no more declarations: g->err_tag_type is chosen
SetErrTagType ==
    /\ pc.at = "count"
    /\ g' = [g EXCEPT !.err_tag_bits = bits_needed_for_unsigned(g.error_value_count)]
    /\ pc' = [pc EXCEPT !.at = "tagged"]
    /\ UNCHANGED <<ast, hist>>

InitErr ==
    /\ g = NewCodeGen(8)
    /\ ast = <<>>
    /\ pc = [at |-> "count", index |-> 0]
    /\ hist = NoHist

NextErr ==
    \/ CountErrorValueDecl
    \/ SetErrTagType

SpecErr == InitErr /\ [][NextErr]_vars

\* C9: the error tag type is u8 exactly when error_value_count is in 1..256,
\* u16 when it is in 257..65536, u32 when it is in 65537..2^32 and u64 above.
C9_ErrTagType ==
    pc.at = "tagged" =>
        LET n == g.error_value_count
            upper == n \div 65536
            above == upper > 65536 \/ (upper = 65536 /\ n % 65536 > 0)
        IN /\ g.err_tag_bits = 8 <=> n \in 1..256
           /\ g.err_tag_bits = 16 <=> n \in 257..65536
           /\ g.err_tag_bits = 32 <=> (n >= 65537 /\ ~above)
           /\ g.err_tag_bits = 64 <=> above

\* ------------------------------------------------------------------ error value declarations

\* how many `error Name;` declarations the import has
MaxErrorDecls == 3

ErrorNames == {"A", "B"}

\* an `error Name;` node with its visibility modifier
ErrorValueDecl(name, is_pub) == [kind |-> "error", name |-> name, is_pub |-> is_pub]

RECURSIVE ErrorDeclLists(_)
ErrorDeclLists(n) ==
    IF n = 0 THEN {<<>>}
    ELSE LET shorter == ErrorDeclLists(n - 1)
         IN shorter \cup
            {Append(l, ErrorValueDecl(nm, pub)) :
                l \in {k \in shorter : Len(k) = n - 1}, nm \in ErrorNames, pub \in BOOLEAN}

\* the loop of resolve_error_value_decl over import->importers from the i-th on
RECURSIVE put_in_importers(_, _, _, _)
put_in_importers(s, importers, err, i) ==
    IF i > Len(importers) THEN s
    ELSE put_in_importers(
             IF MapHas(s.g.imports[importers[i]].error_table, err.name)
             THEN add_node_error(s, <<0, i>>,
                      "import of error '" \o err.name \o "' overrides existing definition")
             ELSE [s EXCEPT !.g.imports[importers[i]].error_table = MapPut(@, err.name, err)],
             importers, err, i + 1)

\* resolve_error_value_decl that takes no index for a name the import has:
\* a variant the equality of the two counters must tell from the code
resolve_error_value_decl_once(s, import, importers, node) ==
    IF MapHas(s.g.imports[import].error_table, s.ast.decls[node].name)
    THEN add_node_error(s, <<node, 0>>,
                        "redefinition of error '" \o s.ast.decls[node].name \o "'")
    ELSE [s EXCEPT !.g.next_error_index = @ + 1,
                   !.g.imports[import].error_table =
                       MapPut(@, s.ast.decls[node].name,
                              [name |-> s.ast.decls[node].name,
                               value |-> s.g.next_error_index, decl_node |-> node]),
                   !.log = Append(@, [ev |-> "errdecl", node |-> node,
                                      name |-> s.ast.decls[node].name, duplicate |-> FALSE,
                                      value |-> s.g.next_error_index,
                                      index_before |-> s.g.next_error_index,
                                      index_after |-> s.g.next_error_index + 1,
                                      errors_before |-> Len(s.g.errors),
                                      errors_after |-> Len(s.g.errors)])]

\* resolve_error_value_decl on the declaration `node` of the import, whose
\* importers are the imports in `importers`
resolve_error_value_decl(s, import, importers, node) ==
    LET decl == s.ast.decls[node]
        err == [name |-> decl.name, value |-> s.g.next_error_index, decl_node |-> node]
        existing_entry == MapHas(s.g.imports[import].error_table, err.name)
        \* the index is taken before the table is looked at
        s1 == [s EXCEPT !.g.next_error_index = @ + 1]
        s2 == IF existing_entry
              THEN add_node_error(s1, <<node, 0>>, "redefinition of error '" \o err.name \o "'")
              ELSE [s1 EXCEPT !.g.imports[import].error_table = MapPut(@, err.name, err)]
        s3 == IF decl.is_pub THEN put_in_importers(s2, importers, err, 1) ELSE s2
    IN [s3 EXCEPT !.log = Append(@,
           [ev |-> "errdecl", node |-> node, name |-> err.name,
            duplicate |-> existing_entry,
            value |-> IF existing_entry
                      THEN MapGet(s.g.imports[import].error_table, err.name).value
                      ELSE err.value,
            index_before |-> s.g.next_error_index,
            index_after |-> s3.g.next_error_index,
            errors_before |-> Len(s.g.errors),
            errors_after |-> Len(s2.g.errors)])]

\* detect_top_level_decl_deps on the next error value declaration of the
\* import "other": it is resolved at once
ResolveErrorValueDecl ==
    /\ pc.at = "errdecl"
    /\ pc.index <= Len(ast.decls)
    /\ Commit(resolve_error_value_decl(Session, "other", ast.importers, pc.index))
    /\ pc' = [pc EXCEPT !.index = @ + 1]

\* the declarations of the import are exhausted
ErrorValueDeclsDone ==
    /\ pc.at = "errdecl"
    /\ pc.index > Len(ast.decls)
    /\ pc' = [at |-> "done", index |-> 0]
    /\ UNCHANGED <<g, ast, hist>>

InitErrDecl ==
    /\ g = NewCodeGen(8)
    /\ \E decls \in ErrorDeclLists(MaxErrorDecls), importers \in {<<>>, <<"root">>} :
           ast = [decls |-> decls, importers |-> importers]
    /\ pc = [at |-> "errdecl", index |-> 1]
    /\ hist = NoHist

NextErrDecl ==
    \/ ResolveErrorValueDecl
    \/ ErrorValueDeclsDone

SpecErrDecl == InitErrDecl /\ [][NextErrDecl]_vars

\* C12: the value of an error name is the one allocated at the first
\* declaration of the name and does not change; the values allocated at first
\* declarations increase strictly; a duplicate declaration is rejected with a
\* diagnostic and allocates no index.
C12_ErrorValueAllocatedOnce ==
    /\ \A k \in LogAt("errdecl") :
          /\ MapHas(g.imports["other"].error_table, hist.log[k].name)
          /\ MapGet(g.imports["other"].error_table, hist.log[k].name).value
                 = hist.log[k].value
    /\ \A k1, k2 \in LogAt("errdecl") :
          /\ (hist.log[k1].name = hist.log[k2].name)
                 => hist.log[k1].value = hist.log[k2].value
          /\ (k1 < k2 /\ ~hist.log[k1].duplicate /\ ~hist.log[k2].duplicate)
                 => hist.log[k1].value < hist.log[k2].value
    /\ \A k \in LogAt("errdecl") :
          hist.log[k].duplicate =>
              /\ hist.log[k].errors_after > hist.log[k].errors_before
              /\ hist.log[k].index_after = hist.log[k].index_before
\* ------------------------------------------------------------------ the order of the diagnostics

\* the source position of a node of the root: declarations come in source
\* order and the fields of a declaration follow its head
PositionBefore(n1, n2) ==
    \/ n1[1] < n2[1]
    \/ n1[1] = n2[1] /\ n1[2] < n2[2]

\* C15: the diagnostics of the file are in g.errors in source order: an error
\* on an earlier node is never appended after an error on a later node.
C15_ErrorsInSourceOrder ==
    \A k1, k2 \in 1..Len(g.errors) :
        PositionBefore(g.errors[k1].node, g.errors[k2].node) => k1 < k2
\* ------------------------------------------------------------------ a second run

\* semantic_analyze is called again on the session, whose imports hold the
\* same parsed root; the log keeps what the first run ended with
SemanticAnalyzeAgain ==
    /\ pc.at = "done"
    /\ LogAt("rerun") = {}
    /\ hist' = [hist EXCEPT !.log = Append(@, [ev |-> "rerun", errors |-> g.errors,
                                                ast |-> ast])]
    /\ pc' = [at |-> "detect", index |-> 1]
    /\ UNCHANGED <<g, ast>>

NextTwice ==
    \/ DetectTopLevelDeclDeps
    \/ ResolveTopLevelDeclarationsRoot
    \/ AnalyzeTopLevelDeclsRoot
    \/ SemanticAnalyzeAgain

SpecTwice == InitDecl /\ [][NextTwice]_vars

\* C14: the second run of the analyzer on the same root ends with the
\* diagnostic list of the first run and with the same resolved type on every
\* declaration.
C14_SecondRunEqual ==
    pc.at = "done" =>
        \A k \in LogAt("rerun") :
            /\ g.errors = hist.log[k].errors
            /\ \A i \in 1..Len(ast) :
                  /\ ast[i].type_entry = hist.log[k].ast[i].type_entry
                  /\ ast[i].expr = hist.log[k].ast[i].expr

\* ------------------------------------------------------------------ function bodies

\* The body of a function of the root import is a tree of nodes.  In these
\* sessions s.ast = [body, exprs, contexts, params, return_type]: exprs maps
\* the path of an analyzed node to its Expr, contexts lists the BlockContexts
\* created; context 0 is the block context of the import.

Node(type, op, name, kids) == [type |-> type, op |-> op, name |-> name, kids |-> kids]

Kid(node, i) == Append(node, i)

\* the null node: an else branch that is absent
NoNode == <<0>>

\* first_executing_node: the leftmost operand of a binary or field access
\* expression
RECURSIVE first_executing_node(_, _)
first_executing_node(body, node) ==
    IF NodeAt(body, node).type \in {"BinOpExpr", "FieldAccessExpr"}
    THEN first_executing_node(body, Kid(node, 1)) ELSE node

entry_bool == Builtin("bool")
entry_num_lit_int == Builtin("(integer literal)")

get_resolved_expr(s, node) == MapGet(s.ast.exprs, node)

\* what the analysis of a node gives: the session after it, the type returned
\* and const_val.ok of the node
Typed(s, h, ok) == [s |-> s, h |-> h, ok |-> ok]

\* new_block_context for the FnDef node: its parent is the context of the
\* import, which is in no loop
FnDefContext == [parent |-> 0, variable_table |-> <<>>, parent_loop_node |-> NoNode]

\* new_block_context; the new context is the last of s.ast.contexts
new_block_context(s, parent) ==
    [s EXCEPT !.ast.contexts =
        Append(@, [parent |-> parent, variable_table |-> <<>>,
                   parent_loop_node |-> s.ast.contexts[parent].parent_loop_node])]

\* the contexts of a function have fn_entry set, the context of the import has not
RECURSIVE find_local_variable(_, _, _)
find_local_variable(s, context, name) ==
    IF context = 0 THEN [type |-> NullType, is_const |-> FALSE, decl_node |-> 0]
    ELSE IF MapHas(s.ast.contexts[context].variable_table, name)
    THEN MapGet(s.ast.contexts[context].variable_table, name)
    ELSE find_local_variable(s, s.ast.contexts[context].parent, name)

\* find_variable from a context of the function up to the import
RECURSIVE find_variable_in(_, _, _)
find_variable_in(s, context, name) ==
    IF context = 0 THEN find_variable(s, "root", name)
    ELSE IF MapHas(s.ast.contexts[context].variable_table, name)
    THEN MapGet(s.ast.contexts[context].variable_table, name)
    ELSE find_variable_in(s, s.ast.contexts[context].parent, name)

\* add_local_var in a context of the function; only the import declares types
add_local_var_in(s, source_node, context, name, type_entry, is_const) ==
    LET type == IF primitive_type_table(name) # NullType
                THEN primitive_type_table(name) ELSE find_container(s, "root", name)
        existing_var == find_local_variable(s, context, name)
        s1 == IF existing_var.type # NullType
              THEN add_node_error(s, source_node,
                                  "redeclaration of variable '" \o name \o "'")
              ELSE IF type # NullType
              THEN add_node_error(s, source_node, "variable shadows type '"
                                                  \o s.g.types[type].name \o "'")
              ELSE s
        var_type == IF existing_var.type # NullType \/ type # NullType
                    THEN entry_invalid ELSE type_entry
    IN [s1 EXCEPT !.ast.contexts[context].variable_table =
                      MapPut(@, name, [type |-> var_type, is_const |-> is_const,
                                       decl_node |-> source_node])]

\* a parameter's declaration is no node of the body: it is named <<0, i>>
IsVariableDeclaration(s, decl_node) ==
    /\ Head(decl_node) # 0
    /\ NodeAt(s.ast.body, decl_node).type = "VariableDeclaration"

\* analyze_symbol_expr in a context of the function: a local variable, or what
\* the symbol names at the top level of the import
analyze_symbol_expr_in(s, context, node) ==
    LET variable_name == NodeAt(s.ast.body, node).name
        var == find_local_variable(s, context, variable_name)
    IN IF primitive_type_table(variable_name) = NullType /\ var.type # NullType
       THEN IF /\ var.is_const
               /\ IsVariableDeclaration(s, var.decl_node)
               /\ get_resolved_expr(s, Kid(var.decl_node, 1)).const_ok
            \* resolve_expr_const_val_as_other_expr
            THEN Typed(s, get_resolved_expr(s, Kid(var.decl_node, 1)).type_entry, TRUE)
            ELSE Typed(s, var.type, FALSE)
       ELSE With(analyze_symbol_expr(s, "root", node, variable_name),
                 LAMBDA r : Typed(r.s, r.type_entry, r.const_val.ok))

RECURSIVE analyze_expression_in(_, _, _, _)

\* the operands of the programs are no arrays, enums or error values
analyze_field_access_expr(s, context, node) ==
    With(analyze_expression_in(s, context, NullType, Kid(node, 1)), LAMBDA r :
        LET T == r.s.g.types
            struct_type == r.h
            field_name == NodeAt(s.ast.body, node).name
            bare_struct_type == IF T[struct_type].id = "Struct" THEN struct_type
                                ELSE T[struct_type].child_type
            fields == T[bare_struct_type].fields
        IN IF \/ T[struct_type].id = "Struct"
              \/ /\ T[struct_type].id = "Pointer"
                 /\ T[T[struct_type].child_type].id = "Struct"
           THEN IF \E i \in 1..Len(fields) : fields[i].name = field_name
                \* find_struct_type_field
                THEN Typed(r.s, fields[CHOOSE i \in 1..Len(fields) :
                                           fields[i].name = field_name].type_entry, FALSE)
                ELSE Typed(add_node_error(r.s, node, "no member named '" \o field_name
                               \o "' in '" \o T[struct_type].name \o "'"),
                           entry_invalid, FALSE)
           ELSE IF T[struct_type].id = "Invalid" THEN Typed(r.s, entry_invalid, FALSE)
           ELSE Typed(add_node_error(r.s, node, "type '" \o T[struct_type].name
                                                \o "' does not support field access"),
                      entry_invalid, FALSE))

\* analyze_lvalue with LValPurposeAssign: the type expected of the right side
analyze_lvalue(s, context, lhs_node) ==
    LET lhs == NodeAt(s.ast.body, lhs_node)
        var == find_variable_in(s, context, lhs.name)
    IN CASE lhs.type = "Symbol" ->
                IF var.type = NullType
                THEN Typed(add_node_error(s, lhs_node, "use of undeclared identifier '"
                                                       \o lhs.name \o "'"),
                           entry_invalid, FALSE)
                ELSE IF var.is_const
                THEN Typed(add_node_error(s, lhs_node, "cannot assign to constant"),
                           entry_invalid, FALSE)
                ELSE Typed(s, var.type, FALSE)
         [] lhs.type = "FieldAccessExpr" -> analyze_field_access_expr(s, context, lhs_node)
         [] OTHER -> Typed(add_node_error(s, lhs_node, "invalid assignment target"),
                           entry_invalid, FALSE)

AssignOps ==
    {"Assign", "AssignTimes", "AssignDiv", "AssignMod", "AssignPlus", "AssignMinus",
     "AssignBitShiftLeft", "AssignBitShiftRight", "AssignBitAnd", "AssignBitXor",
     "AssignBitOr", "AssignBoolAnd", "AssignBoolOr"}
LogicOps == {"BoolOr", "BoolAnd"}
CmpOps ==
    {"CmpEq", "CmpNotEq", "CmpLessThan", "CmpGreaterThan", "CmpLessOrEq", "CmpGreaterOrEq"}
ArithOps ==
    {"BinOr", "BinXor", "BinAnd", "BitShiftLeft", "BitShiftRight",
     "Add", "Sub", "Mult", "Div", "Mod"}

is_op_allowed(T, type, op) ==
    CASE op = "Assign" -> TRUE
      [] op \in {"AssignTimes", "AssignDiv", "AssignMod"} -> T[type].id \in {"Int", "Float"}
      [] op \in {"AssignPlus", "AssignMinus"} -> T[type].id \in {"Int", "Float", "Pointer"}
      [] op \in {"AssignBitShiftLeft", "AssignBitShiftRight", "AssignBitAnd",
                 "AssignBitXor", "AssignBitOr"} -> T[type].id = "Int"
      [] op \in {"AssignBoolAnd", "AssignBoolOr"} -> T[type].id = "Bool"

\* the loop of resolve_peer_type_compatibility over the operand nodes from i
\* on; an operand that is cast keeps its own Expr, the cast node gets the
\* resolved type
RECURSIVE resolve_peer_children_in(_, _, _, _, _)
resolve_peer_children_in(s, child_nodes, expected_type, child_types, i) ==
    IF i > Len(child_types) THEN s
    ELSE IF child_nodes[i] = NoNode
    THEN resolve_peer_children_in(s, child_nodes, expected_type, child_types, i + 1)
    ELSE resolve_peer_children_in(
             resolve_type_compatibility(s, child_nodes[i], expected_type, child_types[i]).s,
             child_nodes, expected_type, child_types, i + 1)

\* resolve_peer_type_compatibility on the operand nodes of parent_source_node
resolve_peer_type_compatibility_in(s, parent_source_node, child_nodes, child_types) ==
    With(determine_peer_type_compatibility(s, parent_source_node, child_nodes, child_types,
                                           child_types[1], child_nodes[1], 2), LAMBDA d :
        IF d.s.g.types[d.h].id = "Invalid" THEN d
        ELSE [s |-> resolve_peer_children_in(d.s, child_nodes, d.h, child_types, 1),
              h |-> d.h])

\* a logic expression that is bool whatever its operands are: a variant the
\* property of Invalid operands must tell from the code
analyze_logic_bin_op_expr_unchecked(s, context, node) ==
    With(analyze_expression_in(s, context, entry_bool, Kid(node, 1)), LAMBDA op1 :
    With(analyze_expression_in(op1.s, context, entry_bool, Kid(node, 2)), LAMBDA op2 :
        Typed(op2.s, entry_bool, FALSE)))

\* analyze_logic_bin_op_expr
analyze_logic_bin_op_expr(s, context, node) ==
    With(analyze_expression_in(s, context, entry_bool, Kid(node, 1)), LAMBDA op1 :
    With(analyze_expression_in(op1.s, context, entry_bool, Kid(node, 2)), LAMBDA op2 :
        IF op1.h = entry_invalid \/ op2.h = entry_invalid
        THEN Typed(op2.s, entry_invalid, FALSE)
        ELSE Typed(op2.s, entry_bool,
                   /\ get_resolved_expr(op2.s, Kid(node, 1)).const_ok
                   /\ get_resolved_expr(op2.s, Kid(node, 2)).const_ok)))

\* zig_unreachable and zig_panic end the compiler; the log keeps where
zig_unreachable(s, node) ==
    [s EXCEPT !.log = Append(@, [ev |-> "abort", node |-> node, by |-> "zig_unreachable"])]
zig_panic(s, node) ==
    [s EXCEPT !.log = Append(@, [ev |-> "abort", node |-> node, by |-> "zig_panic"])]

\* analyze_bool_bin_op_expr.  The programs have no constant of an enum type,
\* whose tags the comparison reads: of that branch the model keeps the
\* operators it accepts
analyze_bool_bin_op_expr(s, context, node) ==
    With(analyze_expression_in(s, context, NullType, Kid(node, 1)), LAMBDA op1 :
    With(analyze_expression_in(op1.s, context, NullType, Kid(node, 2)), LAMBDA op2 :
    With(resolve_peer_type_compatibility_in(op2.s, node, <<Kid(node, 1), Kid(node, 2)>>,
                                            <<op1.h, op2.h>>), LAMBDA p :
        LET bin_op_type == NodeAt(s.ast.body, node).op
            id == p.s.g.types[p.h].id
        IN IF id = "Invalid" THEN Typed(p.s, entry_invalid, FALSE)
           ELSE IF \/ ~get_resolved_expr(p.s, Kid(node, 1)).const_ok
                   \/ ~get_resolved_expr(p.s, Kid(node, 2)).const_ok
           THEN Typed(p.s, entry_bool, FALSE)
           ELSE IF id \in {"NumLitFloat", "NumLitInt", "Float", "Int"}
           THEN IF bin_op_type \in CmpOps THEN Typed(p.s, entry_bool, TRUE)
                ELSE Typed(zig_unreachable(p.s, node), entry_invalid, FALSE)
           ELSE IF id = "Enum"
           THEN IF bin_op_type \in {"CmpEq", "CmpNotEq"} THEN Typed(p.s, entry_bool, TRUE)
                ELSE Typed(zig_unreachable(p.s, node), entry_invalid, FALSE)
           ELSE Typed(zig_unreachable(p.s, node), entry_invalid, FALSE))))

\* analyze_bin_op_expr; the operands of an arithmetic expression of the
\* programs are variables, so the operation is not evaluated
analyze_bin_op_expr(s, context, expected_type, node) ==
    LET bin_op_type == NodeAt(s.ast.body, node).op
    IN CASE bin_op_type \in AssignOps ->
                With(analyze_lvalue(s, context, Kid(node, 1)), LAMBDA l :
                    LET expected_rhs_type == l.h
                        s1 == IF /\ ~is_op_allowed(l.s.g.types, expected_rhs_type, bin_op_type)
                                 /\ expected_rhs_type # entry_invalid
                              THEN add_node_error(l.s, Kid(node, 1),
                                       "operator not allowed for type '"
                                       \o l.s.g.types[expected_rhs_type].name \o "'")
                              ELSE l.s
                    IN With(analyze_expression_in(s1, context, expected_rhs_type, Kid(node, 2)),
                            LAMBDA r : Typed(r.s, entry_void, FALSE)))
         [] bin_op_type \in LogicOps -> analyze_logic_bin_op_expr(s, context, node)
         [] bin_op_type \in CmpOps -> analyze_bool_bin_op_expr(s, context, node)
         [] bin_op_type \in ArithOps ->
                With(analyze_expression_in(s, context, expected_type, Kid(node, 1)),
                     LAMBDA lhs :
                With(analyze_expression_in(lhs.s, context, expected_type, Kid(node, 2)),
                     LAMBDA rhs :
                With(resolve_peer_type_compatibility_in(rhs.s, node,
                         <<Kid(node, 1), Kid(node, 2)>>, <<lhs.h, rhs.h>>),
                     LAMBDA resolved : Typed(resolved.s, resolved.h, FALSE))))

\* analyze_variable_declaration_raw for `const name = expr`, `var name = expr`
\* and the declaration of an if-var expression (no explicit type, not exported)
analyze_variable_declaration_raw(s, context, source_node, expr_is_maybe) ==
    With(analyze_expression_in(s, context, NullType, Kid(source_node, 1)), LAMBDA r :
        LET decl == NodeAt(s.ast.body, source_node)
            is_const == decl.op = "const"
            entry == r.s.g.types[r.h]
            err == IF entry.id = "Invalid" THEN ""  \* ignore the poison value
                   ELSE IF expr_is_maybe
                   THEN IF entry.id = "Maybe" THEN "" ELSE "expected maybe type"
                   ELSE IF entry.id = "Unreachable"
                   THEN "variable initialization is unreachable"
                   ELSE IF ~is_const /\ entry.id = "NumLitInt"
                   THEN "unable to infer variable type"
                   ELSE IF entry.id = "MetaType" /\ ~is_const
                   THEN "variable of type 'type' must be constant"
                   ELSE ""
            implicit_type == IF err # "" THEN entry_invalid
                             ELSE IF expr_is_maybe /\ entry.id = "Maybe" THEN entry.child_type
                             ELSE r.h
            s1 == IF err = "" THEN r.s
                  ELSE add_node_error(r.s, IF expr_is_maybe THEN Kid(source_node, 1)
                                           ELSE source_node, err)
        IN add_local_var_in(s1, source_node, context, decl.name, implicit_type, is_const))

\* analyze_if_then_else on the branches of node: kids 2 and 3
analyze_if_then_else_in(s, context, expected_type, node) ==
    LET then_block == Kid(node, 2)
        else_node == IF Len(NodeAt(s.ast.body, node).kids) >= 3 THEN Kid(node, 3) ELSE NoNode
    IN With(analyze_expression_in(s, context, expected_type, then_block), LAMBDA then_r :
       With(IF else_node # NoNode
            THEN analyze_expression_in(then_r.s, context, expected_type, else_node)
            ELSE resolve_type_compatibility(then_r.s, node, expected_type, entry_void),
            LAMBDA else_r :
           IF expected_type # NullType
           THEN Typed(else_r.s,
                      IF else_r.s.g.types[then_r.h].id = "Unreachable"
                      THEN else_r.h ELSE then_r.h, FALSE)
           ELSE With(resolve_peer_type_compatibility_in(else_r.s, node,
                         <<then_block, else_node>>, <<then_r.h, else_r.h>>),
                     LAMBDA p : Typed(p.s, p.h, FALSE))))

analyze_if_bool_expr(s, context, expected_type, node) ==
    analyze_if_then_else_in(analyze_expression_in(s, context, entry_bool, Kid(node, 1)).s,
                            context, expected_type, node)

\* analyze_if_var_expr: the variable is declared in a child context, and
\* both branches are analyzed in it
analyze_if_var_expr(s, context, expected_type, node) ==
    With(new_block_context(s, context), LAMBDA s1 :
        analyze_if_then_else_in(
            analyze_variable_declaration_raw(s1, Len(s1.ast.contexts), node, TRUE),
            Len(s1.ast.contexts), expected_type, node))

\* analyze_while_expr; a constant condition of the programs is a bool literal
analyze_while_expr(s, context, expected_type, node) ==
    With(analyze_expression_in(s, context, entry_bool, Kid(node, 1)), LAMBDA c :
    With(new_block_context(c.s, context), LAMBDA s1 :
    With(analyze_expression_in(
             [s1 EXCEPT !.ast.contexts[Len(s1.ast.contexts)].parent_loop_node = node],
             Len(s1.ast.contexts), entry_void, Kid(node, 2)),
         LAMBDA b :
        Typed(b.s,
              IF c.h = entry_invalid THEN entry_invalid
              ELSE IF /\ get_resolved_expr(b.s, Kid(node, 1)).const_ok
                      /\ NodeAt(s.ast.body, Kid(node, 1)).name = "true"
                      /\ node \notin b.s.ast.contains_break
              THEN entry_unreachable
              ELSE entry_void,
              FALSE))))

\* analyze_for_expr of `for (elem, array) body`: the kids of the node are the
\* array, the symbol of the element and the body; there is no index symbol,
\* so the index variable has no name and enters no table
analyze_for_expr(s, context, expected_type, node) ==
    With(analyze_expression_in(s, context, NullType, Kid(node, 1)), LAMBDA a :
        LET T == a.s.g.types
            array_type == a.h
            s0 == IF T[array_type].id \in {"Invalid", "Array"}
                     \/ (T[array_type].id = "Struct" /\ T[array_type].is_unknown_size_array)
                  THEN a.s
                  ELSE add_node_error(a.s, node, "iteration over non array type '"
                                                 \o T[array_type].name \o "'")
            child_type == CASE T[array_type].id = "Invalid" -> array_type
                            [] T[array_type].id = "Array" -> T[array_type].child_type
                            [] T[array_type].id = "Struct"
                               /\ T[array_type].is_unknown_size_array ->
                                   T[T[array_type].fields[1].type_entry].child_type
                            [] OTHER -> entry_invalid
        IN With(new_block_context(s0, context), LAMBDA s1 :
           With(add_local_var_in(s1, Kid(node, 2), Len(s1.ast.contexts),
                                 NodeAt(s.ast.body, Kid(node, 2)).name, child_type, TRUE),
                LAMBDA s2 :
               Typed(analyze_expression_in(s2, Len(s1.ast.contexts), entry_void,
                                           Kid(node, 3)).s,
                     entry_void, FALSE))))

\* analyze_break_expr; parent_loop_node is set by analyze_while_expr alone, so
\* the assertion on the type of the loop node holds
analyze_break_expr(s, context, node) ==
    LET loop_node == s.ast.contexts[context].parent_loop_node
    IN IF loop_node # NoNode
       THEN Typed([s EXCEPT !.ast.contains_break = @ \cup {loop_node}],
                  entry_unreachable, FALSE)
       ELSE Typed(add_node_error(s, node, "'break' expression outside loop"),
                  entry_unreachable, FALSE)

\* analyze_continue_expr
analyze_continue_expr(s, context, node) ==
    IF s.ast.contexts[context].parent_loop_node = NoNode
    THEN Typed(add_node_error(s, node, "'continue' expression outside loop"),
               entry_unreachable, FALSE)
    ELSE Typed(s, entry_unreachable, FALSE)

\* the loop over the items of a prong from kid item_i on
RECURSIVE analyze_switch_items(_, _, _, _, _)
analyze_switch_items(s, context, expr_type, prong_node, item_i) ==
    IF item_i > Len(NodeAt(s.ast.body, prong_node).kids) THEN s
    ELSE With(analyze_expression_in(s, context, expr_type, Kid(prong_node, item_i)).s,
              LAMBDA s1 :
             analyze_switch_items(
                 IF get_resolved_expr(s1, Kid(prong_node, item_i)).const_ok THEN s1
                 ELSE add_node_error(s1, Kid(prong_node, item_i),
                                     "unable to resolve constant expression"),
                 context, expr_type, prong_node, item_i + 1))

\* the loop over the prongs of a switch from kid prong_i on; a prong's first
\* kid is its expression, the others its items (none: an else prong)
RECURSIVE analyze_switch_prongs(_, _, _, _, _, _, _)
analyze_switch_prongs(s, context, expected_type, node, expr_type, prong_i, else_prong) ==
    IF prong_i > Len(NodeAt(s.ast.body, node).kids) THEN s
    ELSE LET prong_node == Kid(node, prong_i)
             is_else == Len(NodeAt(s.ast.body, prong_node).kids) = 1
         IN With(IF is_else
                 THEN IF else_prong
                      THEN add_node_error(s, prong_node,
                                          "multiple else prongs in switch expression")
                      ELSE s
                 ELSE analyze_switch_items(s, context, expr_type, prong_node, 2),
                 LAMBDA s1 :
            With(new_block_context(s1, context), LAMBDA s2 :
                analyze_switch_prongs(
                    analyze_expression_in(s2, Len(s2.ast.contexts), expected_type,
                                          Kid(prong_node, 1)).s,
                    context, expected_type, node, expr_type, prong_i + 1,
                    else_prong \/ is_else)))

\* analyze_switch_expr with an expected type (without one the analysis stops
\* in zig_panic); kid 1 is the switched expression, the others the prongs
analyze_switch_expr(s, context, expected_type, node) ==
    With(analyze_expression_in(s, context, NullType, Kid(node, 1)), LAMBDA x :
        IF x.s.g.types[x.h].id = "Invalid" THEN Typed(x.s, x.h, FALSE)
        ELSE IF x.s.g.types[x.h].id = "Unreachable"
        THEN Typed(add_node_error(x.s, first_executing_node(s.ast.body, Kid(node, 1)),
                                  "switch on unreachable expression not allowed"),
                   entry_invalid, FALSE)
        ELSE Typed(analyze_switch_prongs(x.s, context, expected_type, node, x.h, 2, FALSE),
                   expected_type, FALSE))

\* analyze_return_expr in a function; op is the ReturnKind
analyze_return_expr(s, context, expected_type, node) ==
    IF NodeAt(s.ast.body, node).op = "Unconditional"
    THEN Typed(analyze_expression_in(s, context, s.ast.return_type, Kid(node, 1)).s,
               entry_unreachable, FALSE)
    ELSE With(IF expected_type # NullType
              THEN get_error_type(s.g.types, expected_type, s.g.err_tag_bits)
              ELSE Ret(s.g.types, NullType), LAMBDA expected_err_type :
         With(analyze_expression_in([s EXCEPT !.g.types = expected_err_type.types], context,
                                    expected_err_type.h, Kid(node, 1)), LAMBDA r :
             LET resolved_type == r.s.g.types[r.h]
             IN IF resolved_type.id = "Invalid" THEN Typed(r.s, r.h, FALSE)
                ELSE IF resolved_type.id = "ErrorUnion"
                THEN Typed(r.s, resolved_type.child_type, FALSE)
                ELSE Typed(add_node_error(r.s, Kid(node, 1), "expected error type, got '"
                                          \o resolved_type.name \o "'"),
                           entry_invalid, FALSE)))

\* is_node_void_expr: the node is the container init expression `void{}`
is_node_void_expr(body, node) ==
    /\ NodeAt(body, node).type = "ContainerInitExpr"
    /\ NodeAt(body, node).op = "Array"
    /\ NodeAt(body, node).name = "void"

\* analyze_container_init_expr on `T{}` where T names a primitive type and the
\* expression has no entries: void{} is the constant void value, unreachable{}
\* has type unreachable, any other primitive type does not support the syntax
analyze_container_init_expr(s, context, node) ==
    LET e == NodeAt(s.ast.body, node)
        container_type == primitive_type_table(e.name)
    IN IF container_type = NullType
       THEN Typed(add_node_error(s, node, "use of undeclared identifier '" \o e.name \o "'"),
                  entry_invalid, FALSE)
       ELSE IF s.g.types[container_type].id = "Void" THEN Typed(s, entry_void, TRUE)
       ELSE IF s.g.types[container_type].id = "Unreachable" THEN Typed(s, container_type, FALSE)
       ELSE Typed(add_node_error(s, node, "type '" \o s.g.types[container_type].name
                                     \o "' does not support array initialization syntax"),
                  entry_invalid, FALSE)

\* the loop over the statements of a block from statement i on (no labels).
\* After a statement that does not return, a void expression is analyzed in
\* the context of the block's parent and skipped; any other statement is
\* reported as unreachable code and ends the loop.
RECURSIVE analyze_block_statements(_, _, _, _, _, _)
analyze_block_statements(s, child_context, expected_type, node, i, return_type) ==
    LET statements == NodeAt(s.ast.body, node).kids
        is_last == i = Len(statements)
    IN IF i > Len(statements) THEN Typed(s, return_type, FALSE)
       ELSE IF s.g.types[return_type].id = "Unreachable"
       THEN IF is_node_void_expr(s.ast.body, Kid(node, i))
            THEN analyze_block_statements(
                     analyze_expression_in(s, s.ast.contexts[child_context].parent, entry_void,
                                           Kid(node, i)).s,
                     child_context, expected_type, node, i + 1, return_type)
            ELSE Typed(add_node_error(s, first_executing_node(s.ast.body, Kid(node, i)),
                                      "unreachable code"), return_type, FALSE)
       ELSE With(analyze_expression_in(s, child_context,
                     IF is_last THEN expected_type ELSE NullType, Kid(node, i)), LAMBDA r :
                analyze_block_statements(
                    IF ~is_last /\ r.s.g.types[r.h].id = "MetaType"
                    THEN add_node_error(r.s, Kid(node, i), "expected expression, found type")
                    ELSE IF ~is_last /\ r.s.g.types[r.h].id = "ErrorUnion"
                    THEN add_node_error(r.s, Kid(node, i), "statement ignores error value")
                    ELSE r.s,
                    child_context, expected_type, node, i + 1, r.h))

analyze_block_expr(s, context, expected_type, node) ==
    With(new_block_context(s, context), LAMBDA s1 :
        analyze_block_statements(s1, Len(s1.ast.contexts), expected_type, node, 1,
                                 entry_void))

\* analyze_expression on a node of the body: the type the node resolves to
\* under expected_type.  The Expr of the node keeps the type returned by its
\* own analysis; the log keeps what the call was given and what it gave.
analyze_expression_in(s, context, expected_type, node) ==
    LET type == NodeAt(s.ast.body, node).type
    IN With(CASE type = "Block" -> analyze_block_expr(s, context, expected_type, node)
              [] type = "ReturnExpr" -> analyze_return_expr(s, context, expected_type, node)
              [] type = "VariableDeclaration" ->
                     Typed(analyze_variable_declaration_raw(s, context, node, FALSE),
                           entry_void, FALSE)
              [] type = "BinOpExpr" -> analyze_bin_op_expr(s, context, expected_type, node)
              [] type = "FieldAccessExpr" -> analyze_field_access_expr(s, context, node)
              [] type = "ContainerInitExpr" -> analyze_container_init_expr(s, context, node)
              [] type = "NumberLiteral" -> Typed(s, entry_num_lit_int, TRUE)
              [] type = "BoolLiteral" -> Typed(s, entry_bool, TRUE)
              [] type = "Symbol" -> analyze_symbol_expr_in(s, context, node)
              [] type = "IfBoolExpr" -> analyze_if_bool_expr(s, context, expected_type, node)
              [] type = "IfVarExpr" -> analyze_if_var_expr(s, context, expected_type, node)
              [] type = "WhileExpr" -> analyze_while_expr(s, context, expected_type, node)
              [] type = "ForExpr" -> analyze_for_expr(s, context, expected_type, node)
              [] type = "Break" -> analyze_break_expr(s, context, node)
              [] type = "Continue" -> analyze_continue_expr(s, context, node)
              [] type = "SwitchExpr" -> analyze_switch_expr(s, context, expected_type, node),
            LAMBDA r :
       \* a mismatch is reported on first_executing_node(node); a node whose
       \* type is the integer literal type is its own first executing node
       With(resolve_type_compatibility(r.s, first_executing_node(s.ast.body, node),
                                       expected_type, r.h), LAMBDA resolved :
           [s |-> [resolved.s EXCEPT
                       !.ast.exprs = MapPut(@, node, [type_entry |-> r.h, const_ok |-> r.ok]),
                       !.log = Append(@, [ev |-> "expr", node |-> node, context |-> context,
                                          expected_type |-> expected_type,
                                          return_type |-> r.h,
                                          resolved_type |-> resolved.h,
                                          errors_before |-> Len(s.g.errors),
                                          errors_returned |-> Len(r.s.g.errors),
                                          errors_after |-> Len(resolved.s.g.errors)])],
            h |-> resolved.h]))

\* the loop of analyze_top_level_fn_def that defines a constant local variable
\* for each parameter, from parameter i on
RECURSIVE add_param_vars(_, _, _)
add_param_vars(s, context, i) ==
    IF i > Len(s.ast.params) THEN s
    ELSE add_param_vars(add_local_var_in(s, <<0, i>>, context, s.ast.params[i].name,
                                         s.ast.params[i].type, TRUE),
                        context, i + 1)

\* analyze_top_level_fn_def of a function that is not exported and has no
\* labels; context 1 is the block context of the definition
analyze_top_level_fn_def(s) ==
    With(analyze_expression_in(add_param_vars(s, 1, 1), 1, s.ast.return_type, <<>>),
         LAMBDA r : [r.s EXCEPT !.ast.implicit_return_type = r.h])

\* ------------------------------------------------------------------ the function programs

\* the session after the declarations of the root import: `struct S { x: i32, }`
\* and the types ?i32 and %i32 of the parameters
FnCodeGen ==
    With(detect_top_level_decl_deps([g |-> NewCodeGen(8),
                                     ast |-> <<DeclNode("struct", "S", <<Symbol("i32")>>)>>,
                                     log |-> <<>>], "root", 1).g, LAMBDA g1 :
    With(get_maybe_type(g1.types, entry_i32).types, LAMBDA t1 :
         [g1 EXCEPT !.types = get_error_type(t1, entry_i32, g1.err_tag_bits).types]))

\* the handle of the type named nm in the type table T
TypeNamed(T, nm) == CHOOSE h \in 1..Len(T) : T[h].name = nm

\* fn f(a: i32, b: i64, p: bool, s: S, m: ?i32, e: %i32)
FnParams(T) ==
    << [name |-> "a", type |-> entry_i32], [name |-> "b", type |-> entry_i64],
       [name |-> "p", type |-> entry_bool], [name |-> "s", type |-> TypeNamed(T, "S")],
       [name |-> "m", type |-> TypeNamed(T, "?i32")],
       [name |-> "e", type |-> TypeNamed(T, "%i32")] >>

Sym(name) == Node("Symbol", "", name, <<>>)
NumLit(text) == Node("NumberLiteral", "", text, <<>>)
BinOp(op, op1, op2) == Node("BinOpExpr", op, "", <<op1, op2>>)
FieldAccess(struct_expr, field_name) == Node("FieldAccessExpr", "", field_name, <<struct_expr>>)
Return(kind, expr) == Node("ReturnExpr", kind, "", <<expr>>)
VarDecl(kind, name, expr) == Node("VariableDeclaration", kind, name, <<expr>>)
IfBool(condition, then_block, else_node) ==
    Node("IfBoolExpr", "", "", <<condition, then_block, else_node>>)
IfVar(name, expr, then_block, else_node) ==
    Node("IfVarExpr", "var", name, <<expr, then_block, else_node>>)
While(condition, body) == Node("WhileExpr", "", "", <<condition, body>>)
Prong(items, expr) == Node("SwitchProng", "", "", <<expr>> \o items)
Switch(expr, prongs) == Node("SwitchExpr", "", "", <<expr>> \o prongs)
Block(statements) == Node("Block", "", "", statements)

\* the names the bodies use: the parameters and the undeclared `nope`
Operands == {"a", "b", "p", "s", "m", "e", "nope"}

\* { const r = x op y; }
BinOpBodies ==
    {Block(<<VarDecl("const", "r", BinOp(op, Sym(x), Sym(y)))>>) :
        op \in {"Add", "BinAnd", "CmpEq", "BoolAnd"}, x \in Operands, y \in Operands}

\* { const r = x.f; }
FieldBodies ==
    {Block(<<VarDecl("const", "r", FieldAccess(Sym(x), f))>>) :
        x \in Operands, f \in {"x", "y"}}

\* the targets of an assignment: a variable, a constant, a field of either
AssignTargets ==
    {Sym("v"), Sym("a"), Sym("c"), Sym("nope"),
     FieldAccess(Sym("s"), "x"), FieldAccess(Sym("sv"), "x"), FieldAccess(Sym("c"), "x"),
     FieldAccess(Sym("s"), "y"), FieldAccess(Sym("nope"), "x"), NumLit("1")}

\* { var v = a; var sv = s; const c = s; target op rhs; }
AssignBodies ==
    {Block(<<VarDecl("var", "v", Sym("a")), VarDecl("var", "sv", Sym("s")),
             VarDecl("const", "c", Sym("s")), BinOp(op, target, Sym(rhs))>>) :
        op \in {"Assign", "AssignPlus", "AssignBoolAnd"}, target \in AssignTargets,
        rhs \in {"a", "p", "s", "nope"}}

\* { return x; }   { %return x; }   { const r = %return x; return a; }
ReturnBodies ==
    UNION {{Block(<<Return("Unconditional", Sym(x))>>),
            Block(<<Return("Error", Sym(x))>>),
            Block(<<VarDecl("const", "r", Return("Error", Sym(x))),
                    Return("Unconditional", Sym("a"))>>)} : x \in Operands}

\* { const r = if (var x ?= o) t else f; }   { const r = if (c) t else f; }
IfBodies ==
    {Block(<<VarDecl("const", "r", IfVar("x", Sym(o), Sym(t), Sym(f)))>>) :
        o \in {"m", "a", "nope"}, t \in {"x", "a", "nope"}, f \in {"x", "a", "nope"}}
    \cup
    {Block(<<VarDecl("const", "r", IfBool(Sym(c), Sym(t), Sym(f)))>>) :
        c \in {"p", "a", "nope"}, t \in {"a", "b", "p", "nope"}, f \in {"a", "b", "p", "nope"}}

\* { var v = a; while (c) { v = x; } }
WhileBodies ==
    {Block(<<VarDecl("var", "v", Sym("a")),
             While(c, Block(<<BinOp("Assign", Sym("v"), Sym(x))>>))>>) :
        c \in {Sym("p"), Sym("a"), Sym("nope"), Node("BoolLiteral", "", "true", <<>>)},
        x \in {"a", "p", "nope"}}

\* the prongs of a switch: items => a
ProngLists ==
    {<<>>,
     <<Prong(<<NumLit("1")>>, Sym("a"))>>,
     <<Prong(<<NumLit("1"), NumLit("2")>>, Sym("a"))>>,
     <<Prong(<<NumLit("1")>>, Sym("a")), Prong(<<NumLit("2")>>, Sym("b"))>>,
     <<Prong(<<NumLit("1")>>, Sym("a")), Prong(<<>>, Sym("a"))>>,
     <<Prong(<<>>, Sym("a"))>>,
     <<Prong(<<>>, Sym("a")), Prong(<<>>, Sym("a"))>>,
     <<Prong(<<Sym("a")>>, Sym("a"))>>,
     <<Prong(<<Node("BoolLiteral", "", "true", <<>>)>>, Sym("a"))>>,
     <<Prong(<<NumLit("1")>>, Sym("nope"))>>}

\* { switch (x) { prongs } }
SwitchBodies ==
    {Block(<<Switch(Sym(x), prongs)>>) : x \in {"a", "p", "m", "nope"}, prongs \in ProngLists}

\* a function: its body and its return type
FnDefs(T) ==
    {[body |-> body, return_type |-> entry_void] :
        body \in BinOpBodies \cup FieldBodies \cup AssignBodies \cup IfBodies
                 \cup WhileBodies}
    \cup {[body |-> body, return_type |-> return_type] :
            body \in ReturnBodies \cup SwitchBodies,
            return_type \in {entry_i32, TypeNamed(T, "%i32")}}

\* the events of the log up to the first abort
RECURSIVE UpToAbort(_)
UpToAbort(log) ==
    IF log = <<>> THEN <<>>
    ELSE IF Head(log).ev = "abort" THEN <<Head(log)>>
    ELSE <<Head(log)>> \o UpToAbort(Tail(log))

\* semantic_analyze on the one function of the root import.  After
\* zig_unreachable or zig_panic nothing runs: what the analysis would have
\* done after it is dropped
AnalyzeTopLevelFnDef ==
    /\ pc.at = "fn"
    /\ \E r \in {analyze_top_level_fn_def(Session)} :
           IF \E k \in 1..Len(r.log) : r.log[k].ev = "abort"
           THEN /\ hist' = [hist EXCEPT !.log = UpToAbort(r.log)]
                /\ pc' = [at |-> "aborted", index |-> 0]
                /\ UNCHANGED <<g, ast>>
           ELSE /\ Commit(r)
                /\ pc' = [at |-> "done", index |-> 0]

\* the function is parsed and its prototype resolved: its block context is
\* there, its body is not analyzed
InitFn ==
    /\ g = FnCodeGen
    /\ \E fn \in FnDefs(g.types) :
           ast = [body |-> fn.body, exprs |-> <<>>,
                  contexts |-> <<FnDefContext>>, contains_break |-> {},
                  params |-> FnParams(g.types), return_type |-> fn.return_type,
                  implicit_return_type |-> NullType]
    /\ pc = [at |-> "fn", index |-> 0]
    /\ hist = NoHist

NextFn == AnalyzeTopLevelFnDef

SpecFn == InitFn /\ [][NextFn]_vars

\* ------------------------------------------------------------------ properties of function bodies

\* the session the analysis has reached, for the lookups of the properties
Analyzed == [g |-> g, ast |-> ast, log |-> hist.log]

\* the calls of analyze_expression on nodes of the given type
ExprEvents(type) ==
    {k \in LogAt("expr") : NodeAt(ast.body, hist.log[k].node).type = type}

IsPrefix(p, node) == Len(p) <= Len(node) /\ SubSeq(node, 1, Len(p)) = p

\* the diagnostics on the node or on a node below it
ErrorsWithin(node) == {i \in 1..Len(g.errors) : IsPrefix(node, g.errors[i].node)}

\* the variable an assignment target names: the symbol itself, or the symbol
\* whose field it is
RECURSIVE TargetName(_)
TargetName(target) ==
    IF target.type = "FieldAccessExpr" THEN TargetName(target.kids[1]) ELSE target.name

\* the assignments whose target is a constant variable or a field of one
ConstTargetAssignments ==
    {k \in ExprEvents("BinOpExpr") :
        LET node == hist.log[k].node
            target == NodeAt(ast.body, Kid(node, 1))
            var == find_variable_in(Analyzed, hist.log[k].context, TargetName(target))
        IN /\ NodeAt(ast.body, node).op \in AssignOps
           /\ target.type \in {"Symbol", "FieldAccessExpr"}
           /\ var.type # NullType
           /\ var.is_const}

\* C18: every assignment, plain or compound, whose target is a variable
\* declared const or a field of such a variable has a diagnostic on its target
C18_ConstTargetRejected ==
    \A k \in ConstTargetAssignments : ErrorsWithin(Kid(hist.log[k].node, 1)) # {}

\* the arithmetic and bitwise expressions analyzed, and the type of operand i
ArithmeticEvents ==
    {k \in ExprEvents("BinOpExpr") : NodeAt(ast.body, hist.log[k].node).op \in ArithOps}

OperandType(k, i) == get_resolved_expr(Analyzed, Kid(hist.log[k].node, i)).type_entry

NumericIds == {"Int", "Float", "NumLitInt", "NumLitFloat"}

\* C16: a binary arithmetic or bitwise expression on valid operands either has
\* a numeric type or has a diagnostic: operands that unify to a type that is
\* not numeric are rejected
C16_NonNumericRejected ==
    \A k \in ArithmeticEvents :
        (g.types[OperandType(k, 1)].id # "Invalid" /\ g.types[OperandType(k, 2)].id # "Invalid")
        => \/ g.types[hist.log[k].return_type].id \in NumericIds
           \/ ErrorsWithin(hist.log[k].node) # {}

\* C19: in `if (var x ?= expr) A else B`, when no variable x is visible
\* outside the if expression, a reference to x in the else branch B does not
\* resolve: B, the symbol x, is typed Invalid as an undeclared identifier
C19_ElseBranchOutsideBinding ==
    \A k \in ExprEvents("IfVarExpr") :
        LET node == hist.log[k].node
            name == NodeAt(ast.body, node).name
            else_node == NodeAt(ast.body, Kid(node, 3))
        IN (/\ else_node.type = "Symbol"
            /\ else_node.name = name
            /\ find_variable_in(Analyzed, hist.log[k].context, name).type = NullType)
           => /\ get_resolved_expr(Analyzed, Kid(node, 3)).type_entry = entry_invalid
              /\ \E i \in 1..Len(g.errors) : g.errors[i].node = Kid(node, 3)

\* C20: a `%return e` whose operand e has an error union type %T has type T,
\* whether or not a type is expected of it
C20_ErrorReturnUnwraps ==
    \A k \in ExprEvents("ReturnExpr") :
        LET node == hist.log[k].node
            operand == g.types[get_resolved_expr(Analyzed, Kid(node, 1)).type_entry]
        IN (NodeAt(ast.body, node).op = "Error" /\ operand.id = "ErrorUnion")
           => hist.log[k].return_type = operand.child_type

\* the prongs of a switch node and the items of its prongs
ProngsOf(node) == 2..Len(NodeAt(ast.body, node).kids)

IsElseProng(node, i) == Len(NodeAt(ast.body, Kid(node, i)).kids) = 1

\* the switch is on an integer, it has prongs, each with a few integer
\* literals as items, which cannot cover the integer type, and no else prong
NonExhaustive(node) ==
    /\ ProngsOf(node) # {}
    /\ \A i \in ProngsOf(node) :
          /\ ~IsElseProng(node, i)
          /\ \A j \in 2..Len(NodeAt(ast.body, Kid(node, i)).kids) :
                 NodeAt(ast.body, Kid(Kid(node, i), j)).type = "NumberLiteral"
    /\ g.types[get_resolved_expr(Analyzed, Kid(node, 1)).type_entry].id = "Int"

\* C17: a switch on a valid expression whose prongs do not cover its values
\* and that has no else prong has a diagnostic
C17_NonExhaustiveRejected ==
    \A k \in ExprEvents("SwitchExpr") :
        NonExhaustive(hist.log[k].node) => ErrorsWithin(hist.log[k].node) # {}

\* the call of analyze_expression on a node
HasEvent(node) == \E k \in LogAt("expr") : hist.log[k].node = node

EventOf(node) == CHOOSE k \in LogAt("expr") : hist.log[k].node = node

\* the kids an expression consumes as operands: both sides of a binary
\* expression, the struct of a field access, the operand of a return, the
\* condition of a while, the switched expression
OperandKids(e) ==
    CASE e.type = "BinOpExpr" -> {1, 2}
      [] e.type \in {"FieldAccessExpr", "ReturnExpr", "WhileExpr", "SwitchExpr"} -> {1}
      [] OTHER -> {}

\* the operands of call k that were analyzed and resolved to Invalid
InvalidOperands(k) ==
    {i \in OperandKids(NodeAt(ast.body, hist.log[k].node)) :
        /\ HasEvent(Kid(hist.log[k].node, i))
        /\ hist.log[EventOf(Kid(hist.log[k].node, i))].resolved_type = entry_invalid}

\* the diagnostics call k appended itself, not within the analysis of a kid,
\* before its result met the expected type
OwnErrors(k) ==
    {i \in (hist.log[k].errors_before + 1)..hist.log[k].errors_returned :
        \A j \in 1..Len(NodeAt(ast.body, hist.log[k].node).kids) :
            HasEvent(Kid(hist.log[k].node, j))
            => LET kid == hist.log[EventOf(Kid(hist.log[k].node, j))]
               IN ~(kid.errors_before < i /\ i <= kid.errors_after)}

\* the diagnostics call k appended itself after an operand came out Invalid
FurtherErrors(k) ==
    {i \in OwnErrors(k) :
        \E j \in InvalidOperands(k) :
            i > hist.log[EventOf(Kid(hist.log[k].node, j))].errors_after}

\* an Invalid type, or an Invalid expected type, resolves to Invalid and
\* resolve_type_compatibility appends nothing
InvalidResolvesSilently(k) ==
    (hist.log[k].expected_type = entry_invalid \/ hist.log[k].return_type = entry_invalid)
    => /\ hist.log[k].resolved_type = entry_invalid
       /\ hist.log[k].errors_after = hist.log[k].errors_returned

YieldOnInvalid(e) ==
    IF e.type = "BinOpExpr" /\ e.op \in AssignOps THEN entry_void
    ELSE IF e.type = "ReturnExpr" /\ e.op = "Unconditional" THEN entry_unreachable
    ELSE entry_invalid

ContainerInit(kind, type_name) == Node("ContainerInitExpr", kind, type_name, <<>>)

\* the statements of the blocks: return a;  unreachable{};  void{};  a;  const r = a;
InsertStatements ==
    {Return("Unconditional", Sym("a")), ContainerInit("Array", "unreachable"),
     ContainerInit("Array", "void"), Sym("a"), VarDecl("const", "r", Sym("a"))}

\* how many statements a block has before the insertion
MaxStatements == 3

\* fn f(...) -> i32 { s1; ... sn; }
InsertBodies ==
    UNION {{Block(statements) : statements \in [1..n -> InsertStatements]} :
              n \in 1..MaxStatements}

InsertAt(statements, i, statement) ==
    SubSeq(statements, 1, i - 1) \o <<statement>> \o SubSeq(statements, i, Len(statements))

FnAst(T, body, return_type) ==
    [body |-> body, exprs |-> <<>>,
     contexts |-> <<FnDefContext>>, contains_break |-> {},
     params |-> FnParams(T), return_type |-> return_type,
     implicit_return_type |-> NullType]

\* the type the analysis left on a node, NullType on a node it did not reach
ResolvedType(a, node) ==
    IF MapHas(a.exprs, node) THEN MapGet(a.exprs, node).type_entry ELSE NullType

\* the positions of the body's block that follow a statement whose type is unreachable
UnreachablePositions(T, a) ==
    {i \in 2..Len(a.body.kids) + 1 :
        \E j \in 1..i - 1 :
            /\ ResolvedType(a, <<j>>) # NullType
            /\ T[ResolvedType(a, <<j>>)].id = "Unreachable"}

InitInsert ==
    /\ g = FnCodeGen
    /\ \E body \in InsertBodies : ast = FnAst(g.types, body, entry_i32)
    /\ pc = [at |-> "original", index |-> 0]
    /\ hist = NoHist

\* semantic_analyze on the function as it was written
AnalyzeOriginal ==
    /\ pc.at = "original"
    /\ Commit(analyze_top_level_fn_def(Session))
    /\ pc' = [at |-> "insert", index |-> 0]

\* the program is edited: `return a;` becomes statement i of the body, and
\* the edited program is handed to a new compilation
InsertReturn ==
    /\ pc.at = "insert"
    /\ \E f \in {FnCodeGen} :
          /\ \E i \in UnreachablePositions(f.types, ast) :
                /\ ast' = FnAst(f.types,
                                Block(InsertAt(ast.body.kids, i,
                                               Return("Unconditional", Sym("a")))),
                                ast.return_type)
                /\ pc' = [at |-> "inserted", index |-> i]
          /\ g' = f
    /\ hist' = [hist EXCEPT !.last = ast]

\* semantic_analyze on the edited function
AnalyzeInserted ==
    /\ pc.at = "inserted"
    /\ Commit(analyze_top_level_fn_def(Session))
    /\ pc' = [at |-> "compared", index |-> pc.index]

NextInsert == AnalyzeOriginal \/ InsertReturn \/ AnalyzeInserted

SpecInsert == InitInsert /\ [][NextInsert]_vars

\* the nodes of an expression, each named by its path
RECURSIVE NodesOf(_)
NodesOf(e) ==
    {<<>>} \cup UNION {{<<i>> \o node : node \in NodesOf(e.kids[i])} : i \in 1..Len(e.kids)}

\* where a node of the original body is after statement i was inserted
Shifted(node, i) ==
    IF node # <<>> /\ Head(node) >= i THEN <<Head(node) + 1>> \o Tail(node) ELSE node

\* the nodes of the original program whose resolved type the insertion changed
ChangedNodes ==
    {node \in NodesOf(hist.last.body) :
        ResolvedType(hist.last, node) # ResolvedType(ast, Shifted(node, pc.index))}

\* C21: a `return` inserted after a statement whose type is unreachable leaves
\* the resolved type of every other node of the program as it was, the
\* statements that follow the inserted return included
C21_InsertedReturnKeepsTypes ==
    pc.at = "compared" => ChangedNodes = {}

\* ------------------------------------------------------------------ directives

\* a directive #name("param")
Directive(name, param) == [name |-> name, param |-> param]

\* a top-level declaration of the root source file with its directives; fields
\* are the directive lists of the fields of a struct or enum
DirectiveDecl(type, name, directives, fields) ==
    [type |-> type, name |-> name, directives |-> directives, fields |-> fields,
     fn_def_node |-> type = "FnProto" /\ name # "extern_fn", skip |-> FALSE]

\* the node of directive k of field f of declaration i; f = 0 is the declaration itself
DirectiveNode(i, f, k) == <<i, f, k>>

\* parse_version_string accepts "major.minor.patch"
parse_version_string(version_buf) == version_buf = "1.0.0"

\* the loop of resolve_function_proto over the directives of the prototype, from k on
RECURSIVE resolve_function_proto_directives(_, _, _)
resolve_function_proto_directives(s, i, k) ==
    LET fn_proto == s.ast[i]
        name == fn_proto.directives[k].name
        attr_name == fn_proto.directives[k].param
    IN IF k > Len(fn_proto.directives) THEN s
       ELSE resolve_function_proto_directives(
                IF name = "attribute"
                THEN IF fn_proto.fn_def_node /\ attr_name \in {"naked", "inline"} THEN s
                     ELSE add_node_error(s, DirectiveNode(i, 0, k),
                                         "invalid function attribute: '" \o name \o "'")
                ELSE add_node_error(s, DirectiveNode(i, 0, k),
                                    "invalid directive: '" \o name \o "'"),
                i, k + 1)

\* preview_fn_proto of a function that is not a member of a struct: a second
\* prototype of a name is reported and skipped, its directives are not read
preview_fn_proto_directives(s, i) ==
    IF MapHas(s.g.fn_table, s.ast[i].name)
    THEN [add_node_error(s, <<i>>, "redefinition of '" \o s.ast[i].name \o "'")
             EXCEPT !.ast[i].skip = TRUE]
    ELSE resolve_function_proto_directives(
             [s EXCEPT !.g.fn_table = MapPut(@, s.ast[i].name, i)], i, 1)

\* the loop of codegen_add_code over the directives of the root export
\* declaration, from k on
RECURSIVE root_export_directives(_, _, _)
root_export_directives(s, i, k) ==
    LET name == s.ast[i].directives[k].name
        param == s.ast[i].directives[k].param
    IN IF k > Len(s.ast[i].directives) THEN s
       ELSE root_export_directives(
                IF name = "version"
                THEN IF parse_version_string(param) THEN s
                     ELSE add_node_error(s, DirectiveNode(i, 0, k), "invalid version string")
                ELSE IF name = "link"
                THEN [s EXCEPT !.g.link_table = @ \cup {param},
                               !.g.link_libc = @ \/ param = "c"]
                ELSE add_node_error(s, DirectiveNode(i, 0, k),
                                    "invalid directive: '" \o name \o "'"),
                i, k + 1)

\* codegen_add_code on declaration i of the root source file (g->root_import
\* is not set yet)
codegen_add_code_decl(s, i) ==
    IF s.ast[i].type # "RootExportDecl" THEN s
    ELSE With(root_export_directives(s, i, 1), LAMBDA s1 :
            IF s1.g.root_export_decl # 0
            THEN add_node_error(s1, <<i>>, "only one root export declaration allowed")
            ELSE [s1 EXCEPT !.g.root_export_decl = i])

\* the loop of semantic_analyze over the directives of an import declaration, from k on
RECURSIVE import_directives(_, _, _)
import_directives(s, i, k) ==
    IF k > Len(s.ast[i].directives) THEN s
    ELSE import_directives(
             add_node_error(s, DirectiveNode(i, 0, k),
                            "invalid directive: '" \o s.ast[i].directives[k].name \o "'"),
             i, k + 1)

\* what resolve_top_level_decl reads of the directives of declaration i: those
\* of a function prototype, of no other declaration
resolve_top_level_decl_directives(s, i) ==
    IF s.ast[i].type = "FnProto" THEN preview_fn_proto_directives(s, i) ELSE s

\* how many declarations the source file has
MaxDirectiveDecls == 2

DirectiveNames == {"attribute", "version", "link", "packed"}

\* no directive, or one directive
DirectiveLists ==
    {<<>>} \cup {<<Directive(name, param)>> :
                    name \in DirectiveNames, param \in {"naked", "1.0.0", "c"}}

\* fn f() {}   extern fn extern_fn();   var v = ...;   struct S {}   enum E {}
\* struct F { #directive x: i32, }   error Err;   import "...";   c_import {}
\* export executable "out";
DirectiveDecls ==
    {DirectiveDecl(d[1], d[2], directives, <<>>) :
        d \in {<<"FnProto", "f">>, <<"FnProto", "extern_fn">>,
               <<"VariableDeclaration", "v">>, <<"StructDecl", "S">>,
               <<"StructDecl", "E">>, <<"ErrorValueDecl", "Err">>,
               <<"Import", "std">>, <<"CImport", "">>, <<"RootExportDecl", "out">>},
        directives \in DirectiveLists}
    \cup {DirectiveDecl("StructDecl", "F", <<>>, <<directives>>) :
            directives \in DirectiveLists}

InitDirective ==
    /\ g = [errors |-> <<>>, fn_table |-> <<>>, root_export_decl |-> 0,
            link_table |-> {}, link_libc |-> FALSE]
    /\ \E n \in 1..MaxDirectiveDecls : ast \in [1..n -> DirectiveDecls]
    /\ pc = [at |-> "add_code", index |-> 1]
    /\ hist = NoHist

\* where the session is after one step of a loop over the declarations
AfterDecl(at, next_at) ==
    IF pc.index < Len(ast) THEN [at |-> at, index |-> pc.index + 1]
    ELSE [at |-> next_at, index |-> 1]

\* codegen_add_code: the loop over the declarations of the parsed file
CodegenAddCode ==
    /\ pc.at = "add_code"
    /\ Commit(codegen_add_code_decl(Session, pc.index))
    /\ pc' = AfterDecl("add_code", "imports")

\* semantic_analyze: the loop that visits the import declarations
SemanticAnalyzeImports ==
    /\ pc.at = "imports"
    /\ Commit(IF ast[pc.index].type = "Import"
              THEN import_directives(Session, pc.index, 1) ELSE Session)
    /\ pc' = AfterDecl("imports", "resolve")

\* semantic_analyze: the declarations are resolved
ResolveTopLevelDeclDirectives ==
    /\ pc.at = "resolve"
    /\ Commit(resolve_top_level_decl_directives(Session, pc.index))
    /\ pc' = AfterDecl("resolve", "done")

NextDirective == CodegenAddCode \/ SemanticAnalyzeImports \/ ResolveTopLevelDeclDirectives

SpecDirective == InitDirective /\ [][NextDirective]_vars

\* the directive names the code recognizes on a declaration of the given type
RecognizedDirective(type, name) ==
    \/ type = "FnProto" /\ name = "attribute"
    \/ type = "RootExportDecl" /\ name \in {"version", "link"}

\* the directives of the program with a name that is not recognized where it
\* stands; no name is recognized on a struct field
UnknownDirectives ==
    UNION {{DirectiveNode(i, 0, k) :
               k \in {k \in 1..Len(ast[i].directives) :
                         ~RecognizedDirective(ast[i].type, ast[i].directives[k].name)}} :
           i \in 1..Len(ast)}
    \cup UNION {UNION {{DirectiveNode(i, f, k) : k \in 1..Len(ast[i].fields[f])} :
                      f \in 1..Len(ast[i].fields)} : i \in 1..Len(ast)}

\* C22: every directive whose name is not recognized for the declaration that
\* carries it has a diagnostic, on every kind of declaration
C22_UnknownDirectiveReported ==
    pc.at = "done" =>
        \A node \in UnknownDirectives : \E e \in 1..Len(g.errors) : g.errors[e].node = node

\* ------------------------------------------------------------------ properties of the enum layout

\* the enum types whose body is resolved without error
ResolvedEnums ==
    {h \in 1..Len(g.types) :
        g.types[h].id = "Enum" /\ g.types[h].complete /\ ~g.types[h].is_invalid}

\* the payload types of an enum that take part in its union: all but void
Payloads(h) ==
    {g.types[h].fields[i].type_entry : i \in 1..Len(g.types[h].fields)}
        \ {t \in 1..Len(g.types) : g.types[t].id = "Void"}

MaxOf(S) == CHOOSE x \in S : \A y \in S : y <= x

\* C23: the alignment recorded for an enum with at least one payload that is
\* not void is the largest alignment among its payload types
C23_EnumAlignIsMaxPayloadAlign ==
    \A h \in ResolvedEnums :
        Payloads(h) # {} =>
            g.types[h].align_in_bits = MaxOf({g.types[t].align_in_bits : t \in Payloads(h)})

\* ------------------------------------------------------------------ implicit casts

\* the types the prototypes of the functions name, in the order they are
\* resolved: the type constructor and the name of the child type
CastTypes ==
    << <<"maybe", "i64">>, <<"maybe", "?i32">>, <<"error", "i64">>, <<"error", "?i32">>,
       <<"pointer", "i32">>, <<"const pointer", "i32">>, <<"array", "i32">>,
       <<"slice", "i32">>, <<"maybe", "[]i32">> >>

\* resolve_type on one type of a prototype: the type is interned in the type
\* table of the session
AddType(f, type) ==
    LET child == TypeNamed(f.types, type[2])
        T == CASE type[1] = "maybe" -> get_maybe_type(f.types, child).types
               [] type[1] = "error" -> get_error_type(f.types, child, f.err_tag_bits).types
               [] type[1] = "pointer" ->
                      get_pointer_to_type(f.types, child, FALSE, f.pointer_size_bytes).types
               [] type[1] = "const pointer" ->
                      get_pointer_to_type(f.types, child, TRUE, f.pointer_size_bytes).types
               [] type[1] = "array" -> get_array_type(f.types, child, 2).types
               [] type[1] = "slice" ->
                      get_unknown_size_array_type(f.types, child, FALSE,
                                                  f.pointer_size_bytes).types
    IN [f EXCEPT !.types = T]

RECURSIVE AddTypes(_, _, _)
AddTypes(f, types, i) ==
    IF i > Len(types) THEN f ELSE AddTypes(AddType(f, types[i]), types, i + 1)

\* the session of FnCodeGen with the types ?i64, ??i32, %i64, %?i32, &i32,
\* &const i32, [2]i32, []i32 and ?[]i32 added
CastCodeGen == AddTypes(FnCodeGen, CastTypes, 1)

\* the types of the operand: every type a parameter can have, and the type of
\* an integer literal
CastActualTypes(T) ==
    {h \in 1..Len(T) : T[h].id \notin {"Invalid", "Void", "Unreachable", "MetaType"}}

\* the types expected of the operand
CastExpectedTypes(T) ==
    {h \in 1..Len(T) : T[h].id \notin {"Invalid", "Unreachable", "MetaType", "NumLitInt"}}

\* fn f(x: A) -> E { x }   and   fn f() -> E { 1 }
InitCast ==
    /\ g = CastCodeGen
    /\ \E expected_type \in CastExpectedTypes(g.types), actual_type \in CastActualTypes(g.types) :
          ast = [body |-> Block(<<IF g.types[actual_type].id = "NumLitInt"
                                  THEN NumLit("1") ELSE Sym("x")>>),
                 exprs |-> <<>>,
                 contexts |-> <<FnDefContext>>, contains_break |-> {},
                 params |-> IF g.types[actual_type].id = "NumLitInt" THEN <<>>
                            ELSE <<[name |-> "x", type |-> actual_type]>>,
                 return_type |-> expected_type,
                 implicit_return_type |-> NullType]
    /\ pc = [at |-> "fn", index |-> 0]
    /\ hist = NoHist

NextCast == AnalyzeTopLevelFnDef

SpecCast == InitCast /\ [][NextCast]_vars

\* C24: every cast node that resolve_type_compatibility inserts because
\* types_match_with_implicit_cast accepted the pair (expected, actual) is
\* classified with a cast op other than NoCast, has the expected type and adds
\* no diagnostic
C24_AcceptedCastSucceeds ==
    \A k \in LogAt("cast") :
        /\ hist.log[k].cast_op # "NoCast"
        /\ hist.log[k].type = hist.log[k].wanted_type
        /\ hist.log[k].errors_after = hist.log[k].errors_before

\* ------------------------------------------------------------------ declarations that share a name

\* the names the declarations of these programs are drawn from
SharedNames == {DeclNames[1], DeclNames[2]}

\* the programs of MaxDecls declarations with one field (or initializer) each,
\* their names drawn freely, so that several declarations may have one name
RECURSIVE SharedNamePrograms(_)
SharedNamePrograms(n) ==
    IF n = 0 THEN {<<>>}
    ELSE {Append(rest, DeclNode(kind, name, <<e>>)) :
             rest \in SharedNamePrograms(n - 1), kind \in NodeKinds, name \in SharedNames,
             e \in PlainExprs(MaxDecls)}

InitShared ==
    /\ g = NewCodeGen(8)
    /\ ast \in SharedNamePrograms(MaxDecls)
    /\ pc = [at |-> "detect", index |-> 1]
    /\ hist = NoHist

SpecShared == InitShared /\ [][NextDecl]_vars

\* the declarations detect_top_level_decl_deps put into the unresolved table:
\* those it found a dependency of
Deferred == {i \in 1..Len(ast) : Len(ast[i].deps) > 0}

ResolveEvents(i) == {k \in LogAt("resolve") : hist.log[k].node = i}

\* C25: when top-level resolution has finished, every declaration that was
\* deferred into the unresolved table has been resolved exactly once, also
\* when several declarations share a name
C25_DeferredResolvedOnce ==
    pc.at = "done" => \A i \in Deferred : Cardinality(ResolveEvents(i)) = 1
\* ------------------------------------------------------------------ termination of top-level resolution

\* semantic_analyze runs its loops to the end: while it is not done its next
\* step is taken.  Each action is a total function of the state under its
\* guard and the guards cover every state but "done", so this is weak fairness
\* of the next-state relation, WF_vars(NextDecl), with its enabling condition
\* written as the state predicate it amounts to
RunsToEnd == []<>(pc.at = "done") \/ []<><<NextDecl>>_vars

SpecDeclLive ==
    InitDecl /\ [][NextDecl]_vars /\ RunsToEnd /\ WF_vars(AnalyzeTopLevelDeclsRoot)

\* one round of the loop of resolve_top_level_declarations_root
ResolveRound == pc.at = "resolve" /\ pc'.at = "resolve"

\* what holds when the loop is left
ResolutionExit ==
    pc.at = "done" =>
        /\ Len(g.unresolved_top_level_decls) = 0
        /\ \A i \in 1..Len(ast) : ~ast[i].in_current_deps

\* C26: for every program, cyclic dependency graphs included, every round of
\* the resolution loop removes at least one entry of the unresolved table,
\* the loop ends, and on exit the table is empty and no declaration has
\* in_current_deps set
C26_ResolutionTerminates ==
    /\ [][ResolveRound =>
            Len(g'.unresolved_top_level_decls) < Len(g.unresolved_top_level_decls)]_vars
    /\ []ResolutionExit
    /\ <>(pc.at = "done")

\* the loop has ended after a dependency loop was met and several
\* declarations were resolved
C26_Witness ==
    /\ pc.at = "done"
    /\ LogAt("loop") # {}
    /\ Cardinality(LogAt("resolve")) >= 2
\* ------------------------------------------------------------------ comparisons of constants

BoolLit(text) == Node("BoolLiteral", "", text, <<>>)

\* operands that are compile-time constants: integer literals, bool literals
\* and the names of types
ConstOperands == {NumLit("1"), NumLit("2"), BoolLit("true"), BoolLit("false"),
                  Sym("i32"), Sym("bool")}

\* fn f(a: i32, ...) { const r = x op y; } where x and y are constants or the
\* parameters a and p
InitCmp ==
    /\ g = FnCodeGen
    /\ \E op \in CmpOps, x \in ConstOperands \cup {Sym("a"), Sym("p")},
          y \in ConstOperands \cup {Sym("a"), Sym("p")} :
           ast = [body |-> Block(<<VarDecl("const", "r", BinOp(op, x, y))>>),
                  exprs |-> <<>>,
                  contexts |-> <<FnDefContext>>, contains_break |-> {},
                  params |-> FnParams(g.types), return_type |-> entry_void,
                  implicit_return_type |-> NullType]
    /\ pc = [at |-> "fn", index |-> 0]
    /\ hist = NoHist

NextCmp == AnalyzeTopLevelFnDef

SpecCmp == InitCmp /\ [][NextCmp]_vars

\* the comparison of the program has two operands that are constants
ConstComparison ==
    /\ ast.body.kids[1].kids[1].kids[1] \in ConstOperands
    /\ ast.body.kids[1].kids[1].kids[2] \in ConstOperands

\* C27: the analysis of a comparison whose two operands are compile-time
\* constants never reaches zig_unreachable or zig_panic, whatever type the
\* operands are unified to
C27_ConstComparisonNeverAborts ==
    ConstComparison => pc.at # "aborted" /\ LogAt("abort") = {}
\* ------------------------------------------------------------------ break and continue

\* how deep the break or continue of a program is nested
MaxNesting == 2

\* what a statement is nested in: while (p) { }, while (true) { },
\* for (x, arr) { }, if (p) { } and { }
Nestings == {"while", "forever", "for", "if", "block"}

\* the statement nested in the construct; the element of the for at depth d
\* is named after d
Nested(kind, d, statement) ==
    CASE kind = "while" -> While(Sym("p"), Block(<<statement>>))
      [] kind = "forever" -> While(BoolLit("true"), Block(<<statement>>))
      [] kind = "for" -> Node("ForExpr", "", "",
                              <<Sym("arr"), Sym(<<"x1", "x2", "x3", "x4">>[d]),
                                Block(<<statement>>)>>)
      [] kind = "if" -> Node("IfBoolExpr", "", "", <<Sym("p"), Block(<<statement>>)>>)
      [] OTHER -> Block(<<statement>>)

\* the statement nested in kinds[d], ..., kinds[Len(kinds)], outermost first
RECURSIVE NestedIn(_, _, _)
NestedIn(kinds, d, statement) ==
    IF d > Len(kinds) THEN statement
    ELSE Nested(kinds[d], d, NestedIn(kinds, d + 1, statement))

\* fn f(a: i32, ..., arr: [2]i32) { nested break or continue }
InitLoop ==
    /\ g = CastCodeGen
    /\ \E n \in 0..MaxNesting :
         \E kinds \in [1..n -> Nestings], jump \in {"Break", "Continue"} :
           ast = [body |-> Block(<<NestedIn(kinds, 1, Node(jump, "", "", <<>>))>>),
                  exprs |-> <<>>,
                  contexts |-> <<FnDefContext>>, contains_break |-> {},
                  params |-> FnParams(g.types)
                             \o <<[name |-> "arr", type |-> TypeNamed(g.types, "[2]i32")]>>,
                  return_type |-> entry_void,
                  implicit_return_type |-> NullType]
    /\ pc = [at |-> "fn", index |-> 0]
    /\ hist = NoHist

NextLoop == AnalyzeTopLevelFnDef

SpecLoop == InitLoop /\ [][NextLoop]_vars

\* the break and continue expressions of the program
Jumps == {node \in NodesOf(ast.body) : NodeAt(ast.body, node).type \in {"Break", "Continue"}}

\* the loops the node is in the body of: the body of a while is its kid 2,
\* the body of a for its kid 3
EnclosingLoops(node) ==
    {k \in 0..(Len(node) - 1) :
        \/ NodeAt(ast.body, SubSeq(node, 1, k)).type = "WhileExpr" /\ node[k + 1] = 2
        \/ NodeAt(ast.body, SubSeq(node, 1, k)).type = "ForExpr" /\ node[k + 1] = 3}

\* the node is reported as being outside a loop
OutsideLoopReported(node) ==
    \E k \in 1..Len(g.errors) :
        /\ g.errors[k].node = node
        /\ g.errors[k].msg \in {"'break' expression outside loop",
                                "'continue' expression outside loop"}

\* C28: a break or continue expression is reported as being outside a loop
\* if and only if no while and no for of the function encloses it
C28_OutsideLoopIffNoLoop ==
    pc.at = "done" =>
        \A node \in Jumps : OutsideLoopReported(node) <=> EnclosingLoops(node) = {}
\* ------------------------------------------------------------------ the order of peer operands

\* the node of an operand of the type: the literal 1 for the type of integer
\* literals, a symbol for the others
OperandNode(T, type) == IF T[type].id = "NumLitInt" THEN NumLit("1") ELSE Sym("x")

\* `if (p) x else y` whose branches have been analyzed to two types of the
\* type table of CastCodeGen
InitPeerOrder ==
    /\ g = CastCodeGen
    /\ \E then_type \in 1..Len(g.types), else_type \in 1..Len(g.types) :
           ast = [body |-> Block(<<IfBool(Sym("p"), OperandNode(g.types, then_type),
                                          OperandNode(g.types, else_type))>>),
                  child_nodes |-> <<<<1, 2>>, <<1, 3>>>>,
                  child_types |-> <<then_type, else_type>>]
    /\ pc = [at |-> "peer", index |-> 0]
    /\ hist = NoHist

\* determine_peer_type_compatibility on the operands given in an order
PeerType(nodes, types) ==
    determine_peer_type_compatibility(Session, <<1>>, nodes, types, types[1], nodes[1], 2)

\* the two operands in the other order
Swapped(pair) == <<pair[2], pair[1]>>

\* determine_peer_type_compatibility is applied to the operands as given and,
\* from the same session, to the operands in the other order
DeterminePeerTypes ==
    /\ pc.at = "peer"
    /\ \E given \in {PeerType(ast.child_nodes, ast.child_types)},
          swapped \in {PeerType(Swapped(ast.child_nodes), Swapped(ast.child_types))} :
           /\ g' = given.s.g
           /\ hist' = [hist EXCEPT !.results =
                          {[order |-> "given", h |-> given.h,
                            errors |-> Len(given.s.g.errors)],
                           [order |-> "swapped", h |-> swapped.h,
                            errors |-> Len(swapped.s.g.errors)]}]
    /\ pc' = [at |-> "done", index |-> 0]
    /\ UNCHANGED ast

NextPeerOrder == DeterminePeerTypes

SpecPeerOrder == InitPeerOrder /\ [][NextPeerOrder]_vars

\* C29: determine_peer_type_compatibility on two operand types gives the same
\* in both orders of the operands: it fails on both, or it returns the same
\* type on both
C29_PeerTypeSymmetric ==
    pc.at = "done" =>
        \A r1 \in hist.results, r2 \in hist.results :
            /\ (g.types[r1.h].id = "Invalid") = (g.types[r2.h].id = "Invalid")
            /\ r1.h = r2.h
\* ------------------------------------------------------------------ the two error counters

\* the error value declarations of the two imports, in the order in which
\* import_table is iterated: the first `split` are those of the import
\* `first`, the others those of the other import.  The import "other" is
\* imported by the root or by nothing
ErrorPrograms ==
    {[decls |-> decls, first |-> first, split |-> split, importers |-> importers] :
        decls \in ErrorDeclLists(MaxErrorDecls), first \in Imports,
        split \in 0..MaxErrorDecls, importers \in {<<>>, <<"root">>}}

\* one import with so many declarations of one name that error_value_count
\* passes 255, where bits_needed_for_unsigned changes
LongErrorPrograms ==
    {[decls |-> [i \in 1..n |-> ErrorValueDecl("A", FALSE)], first |-> "root",
      split |-> n, importers |-> <<>>] : n \in 254..256}

\* the import that declaration i is in
DeclImport(i) ==
    IF i <= ast.split THEN ast.first ELSE CHOOSE o \in Imports : o # ast.first

\* the first loop of semantic_analyze on the next error value declaration
CountDeclaredErrorValue ==
    /\ pc.at = "count"
    /\ pc.index <= Len(ast.decls)
    /\ g' = [g EXCEPT !.error_value_count = @ + 1]
    /\ pc' = [pc EXCEPT !.index = @ + 1]
    /\ UNCHANGED <<ast, hist>>

\* the declarations are counted: g->err_tag_type is chosen
ChooseErrTagType ==
    /\ pc.at = "count"
    /\ pc.index > Len(ast.decls)
    /\ g' = [g EXCEPT !.err_tag_bits = bits_needed_for_unsigned(g.error_value_count)]
    /\ pc' = [at |-> "detect", index |-> 1]
    /\ UNCHANGED <<ast, hist>>

\* detect_top_level_decl_deps on the next error value declaration, which is
\* resolved at once
DetectErrorValueDecl ==
    /\ pc.at = "detect"
    /\ pc.index <= Len(ast.decls)
    /\ Commit(resolve_error_value_decl(Session, DeclImport(pc.index),
                                       IF DeclImport(pc.index) = "other"
                                       THEN ast.importers ELSE <<>>,
                                       pc.index))
    /\ pc' = [pc EXCEPT !.index = @ + 1]

\* assert(g->error_value_count == g->next_error_index)
AssertErrorValueCount ==
    /\ pc.at = "detect"
    /\ pc.index > Len(ast.decls)
    /\ pc' = [at |-> IF g.error_value_count = g.next_error_index
                     THEN "done" ELSE "aborted",
              index |-> 0]
    /\ UNCHANGED <<g, ast, hist>>

InitErrCount ==
    /\ g = NewCodeGen(8)
    /\ ast \in ErrorPrograms \cup LongErrorPrograms
    /\ pc = [at |-> "count", index |-> 1]
    /\ hist = NoHist

NextErrCount ==
    \/ CountDeclaredErrorValue
    \/ ChooseErrTagType
    \/ DetectErrorValueDecl
    \/ AssertErrorValueCount

SpecErrCount == InitErrCount /\ [][NextErrCount]_vars

\* the values given to the ErrorTableEntry of a declaration so far
AssignedErrorValues == {hist.log[k].index_before : k \in LogAt("errdecl")}

\* the values of the entries the error tables of the imports hold
EnteredErrorValues ==
    UNION {{g.imports[i].error_table[k][2].value :
                k \in 1..Len(g.imports[i].error_table)} : i \in Imports}

\* C30: for every program, with duplicate error declarations and with
\* several imports, error_value_count equals next_error_index at the
\* assertion of semantic_analyze, and every value v given to an ErrorEntry has
\* 1 <= v < error_value_count and fits the error tag type
C30_ErrorValuesCounted ==
    /\ pc.at # "aborted"
    /\ pc.at = "done" => g.error_value_count = g.next_error_index
    /\ \A v \in AssignedErrorValues \cup EnteredErrorValues :
           /\ 1 <= v
           /\ v < g.error_value_count
           /\ v < 2 ^ g.err_tag_bits

\* the assertion was passed by a program whose two imports both declare error
\* values, one of them twice
C30_Witness ==
    /\ pc.at = "done"
    /\ ast.split \in 1..(Len(ast.decls) - 1)
    /\ \E k \in LogAt("errdecl") : hist.log[k].duplicate
    /\ Cardinality(AssignedErrorValues) = Len(ast.decls)
====
